---- MODULE Spec2Model ----
(***************************************************************************)
(* OurNest single-page client (frontend/src/App.jsx): the view-state       *)
(* controller and its REST calls.  Every useState cell is a variable, every*)
(* handler an action.  An async handler is split where it awaits: the      *)
(* click issues the request (a message in net, carrying the values the     *)
(* handler's closure captured at the click), the backend serves it (the    *)
(* payload is the backend's state at that moment), and the continuation    *)
(* applies the response to the state.                                      *)
(***************************************************************************)
EXTENDS Integers, Sequences, FiniteSets, Bags, TLC

VARIABLES
  \* ---- login (App.jsx:8-14)
  mobile, requestId, otp, accessToken, step, error, backendStatus,
  \* ---- requests in flight, pending setTimeout callbacks
  net, timers,
  \* ---- popup (App.jsx:17-19)
  popupMessage, popupType, showPopup, aptMessage,
  \* ---- held lists and selection (App.jsx:26-66)
  createdApartments, dashboard,
  selectedApartmentId, selectedApartmentName,
  units, selectedUnitId, selectedUnitLabel,
  occupants, occName, occPhone, occRole,
  invoices, invPeriod, invAmount, invDueDate, invFilterMonth, editingInvoiceId,
  \* ---- apartment, unit and occupant forms (App.jsx:22-54)
  aptName, aptCity, aptUnits, editingApartmentId, aptNameExists,
  unitName, unitBhk, unitStatus, editingUnitId, unitNameExists,
  editingOccupantId, occPhoneExists,
  \* ---- the input that has the focus, "" when none of the modelled ones
  focused,
  \* ---- backend (external REST service)
  srvOtpReqs, srvTokens, srvInvoices, srvNewInv,
  srvApartments, srvUnits, srvOccupants, srvCreated,
  \* ---- history: paidShown, the invoices whose mark-paid refresh has been
  \* applied; unpaidDone, those a mark-unpaid has succeeded for
  paidShown, unpaidDone

authVars == <<mobile, requestId, otp, accessToken, step, error, backendStatus>>
popupVars == <<popupMessage, popupType, showPopup, aptMessage>>
homeVars == <<createdApartments, dashboard>>
selVars == <<selectedApartmentId, selectedApartmentName, selectedUnitId, selectedUnitLabel>>
listVars == <<units, occupants, invoices>>
occFormVars == <<occName, occPhone, occRole>>
invFormVars == <<invPeriod, invAmount, invDueDate, editingInvoiceId>>
srvAuthVars == <<srvOtpReqs, srvTokens>>
srvDataVars == <<srvInvoices, srvNewInv>>
histVars == <<paidShown, unpaidDone>>
aptFormVars == <<aptName, aptCity, aptUnits, editingApartmentId, aptNameExists>>
unitFormVars == <<unitName, unitBhk, unitStatus, editingUnitId, unitNameExists>>
occEditVars == <<editingOccupantId, occPhoneExists>>
crudVars == <<aptFormVars, unitFormVars, occEditVars, focused>>
srvListVars == <<srvApartments, srvUnits, srvOccupants, srvCreated>>
dataVars == <<srvDataVars, srvListVars, histVars>>
appVars == <<selVars, listVars, occFormVars, invFormVars, invFilterMonth, crudVars>>
vars == <<authVars, net, timers, popupVars, homeVars, appVars, srvAuthVars, dataVars>>

----------------------------------------------------------------------------
(* Bounds *)

\* requests in flight at once when a handler issues more; the refresh a
\* continuation issues is not held back
MaxInFlight == 2
\* send-otp requests the backend accepts in one behaviour
MaxOtpReqs == 1
\* invoices the backend creates in one behaviour
MaxNewInv == 1

\* minimum length of a period label
MinPeriodLen == 3

----------------------------------------------------------------------------
(* Values *)

\* useState(null): no request id, no selection, no editing id
Null == "null"
\* useState(null) of the dashboard, a record once fetched
NoDashboard == [none |-> TRUE]

\* a string is a sequence of one-character strings
Digit == {"0", "1", "2", "3", "4", "5", "6", "7", "8", "9"}

Rep(first, rest, n) == [i \in 1..n |-> IF i = 1 THEN first ELSE rest]

\* /^[6-9]\d{9}$/ : one of 6-9, then MobileTail digits, anchored at both ends
MobileTail == 9
MobilePattern == <<{"6", "7", "8", "9"}>> \o [i \in 1..MobileTail |-> Digit]

\* an anchored pattern of character classes matches a string position by position
Matches(p, str) == Len(str) = Len(p) /\ \A i \in 1..Len(p) : str[i] \in p[i]

\* the pattern without its [6-9] class: any ten digits
isValidMobileAnyLead(m) == Matches([i \in 1..MobileTail + 1 |-> Digit], m)

isValidMobile(m) == Matches(MobilePattern, m)

\* maxLength of the mobile input
MobileMaxLength == 10

ValidMobile == Rep("6", "1", MobileMaxLength)
OtherMobile == Rep("9", "0", MobileMaxLength)

\* what the user types into the mobile input in the login specification
MobileInputs == { <<>>, ValidMobile }

\* the cases of the pattern: empty, short, leading 0-5, a non-digit first,
\* inside or last, and the four leading digits it accepts
MobileCases ==
  { <<>>, <<"6">>, Rep("6", "1", MobileMaxLength - 1),
    Rep("a", "1", MobileMaxLength), Rep("6", "a", MobileMaxLength),
    Rep("+", "9", MobileMaxLength), Rep(" ", "9", MobileMaxLength) }
  \cup { Rep(d, "1", MobileMaxLength) : d \in Digit }
  \cup { [Rep(d, "0", MobileMaxLength) EXCEPT ![k] = c] :
           d \in {"6", "9"}, k \in {2, MobileMaxLength}, c \in {"x", " ", "-", "."} }

\* the OTP the backend sent, and a wrong one
ServerOtp == "1234"
OtpInputs == {ServerOtp}

\* the popup text: a template and the value spliced into it
Msg(text, arg) == [text |-> text, arg |-> arg]
NoMsg == Msg("", <<>>)

\* String.prototype.trim
RECURSIVE TrimLeft(_)
TrimLeft(str) == IF str # <<>> /\ Head(str) = " " THEN TrimLeft(Tail(str)) ELSE str
RECURSIVE TrimRight(_)
TrimRight(str) ==
  IF str # <<>> /\ str[Len(str)] = " " THEN TrimRight(SubSeq(str, 1, Len(str) - 1)) ELSE str
Trim(str) == TrimRight(TrimLeft(str))

DigitVal(c) == CASE c = "0" -> 0 [] c = "1" -> 1 [] c = "2" -> 2 [] c = "3" -> 3
                 [] c = "4" -> 4 [] c = "5" -> 5 [] c = "6" -> 6 [] c = "7" -> 7
                 [] c = "8" -> 8 [] c = "9" -> 9
DigitChar(n) == CHOOSE c \in Digit : DigitVal(c) = n

RECURSIVE DigitsPrefix(_)
DigitsPrefix(str) ==
  IF str # <<>> /\ Head(str) \in Digit THEN <<Head(str)>> \o DigitsPrefix(Tail(str)) ELSE <<>>
RECURSIVE DecVal(_)
DecVal(ds) == IF ds = <<>> THEN 0 ELSE 10 * DecVal(SubSeq(ds, 1, Len(ds) - 1)) + DigitVal(ds[Len(ds)])

\* a Number: NaN, or an integer
NaN == [nan |-> TRUE, val |-> 0]
Num(n) == [nan |-> FALSE, val |-> n]

\* parseInt(str, 10): leading blanks, an optional sign, then the digits up to the
\* first other character; NaN when there is no digit there
parseInt(str) ==
  LET t == TrimLeft(str)
      signed == t # <<>> /\ Head(t) \in {"-", "+"}
      ds == DigitsPrefix(IF signed THEN Tail(t) ELSE t)
  IN IF ds = <<>> THEN NaN
     ELSE Num(IF Head(t) = "-" THEN 0 - DecVal(ds) ELSE DecVal(ds))

\* x <= 0 on Numbers: false for NaN
LeqZero(x) == ~x.nan /\ x.val <= 0

\* Number.prototype.toString of a non-negative integer
RECURSIVE toString(_)
toString(n) == IF n < 10 THEN <<DigitChar(n)>> ELSE toString(n \div 10) \o <<DigitChar(n % 10)>>

Rid(n) == "r" \o ToString(n)
Tok(n) == "tok" \o ToString(n)

NoData == [detail |-> ""]

\* net is the bag of requests in flight: st = "sent" until the backend has
\* served it, then "resp" with the outcome (2xx, non2xx, or exc when fetch or
\* res.json() throws) and the payload
Request(kind, auth, body, ctx) ==
  [kind |-> kind, st |-> "sent", auth |-> auth, body |-> body, ctx |-> ctx,
   res |-> "", data |-> NoData]
InFlight == BagToSet(net)
Pending(m, kind) == m \in InFlight /\ m.kind = kind /\ m.st = "sent"
Answered(m, kind) == m \in InFlight /\ m.kind = kind /\ m.st = "resp"
One(m) == SetToBag({m})
RECURSIVE BagOfSeq(_)
BagOfSeq(reqs) == IF reqs = <<>> THEN EmptyBag ELSE One(Head(reqs)) (+) BagOfSeq(Tail(reqs))
Room(n) == BagCardinality(net) + n <= MaxInFlight
Issue(reqs) == net (+) BagOfSeq(reqs)
Answer(m, res, data) ==
  (net (-) One(m)) (+) One([m EXCEPT !.st = "resp", !.res = res, !.data = data])
\* the continuation of m runs: m is gone, the requests it issues are in flight
Finish(m, reqs) == (net (-) One(m)) (+) BagOfSeq(reqs)

NoCtx == [mobile |-> <<>>, paid |-> Null]

----------------------------------------------------------------------------
(* Backend data.  The REST service is outside the client; it is modelled   *)
(* from the interface the specification lists.                             *)

AptA == [id |-> "A", name |-> <<"A", "l", "p", "h", "a">>, city |-> <<"P", "u", "n", "e">>, total_units |-> 2]
AptB == [id |-> "B", name |-> <<"B", "e", "t", "a">>, city |-> <<"P", "u", "n", "e">>, total_units |-> 1]
SrvApartments == <<AptA, AptB>>

Unit1 == [id |-> "u1", apartment_id |-> "A", name |-> <<"A", "1">>, bhk_type |-> "2BHK", status |-> "occupied"]
Unit2 == [id |-> "u2", apartment_id |-> "A", name |-> <<"A", "2">>, bhk_type |-> "1BHK", status |-> "vacant"]
Unit3 == [id |-> "u3", apartment_id |-> "B", name |-> <<"B", "1">>, bhk_type |-> "3BHK", status |-> "occupied"]
SrvUnits == <<Unit1, Unit2, Unit3>>

OccPhone1 == [OtherMobile EXCEPT ![MobileMaxLength] = "1"]
OccPhone3 == [OtherMobile EXCEPT ![MobileMaxLength] = "3"]
Occ1 == [id |-> "o1", unit_id |-> "u1", name |-> <<"A", "s", "h", "a">>, phone |-> OccPhone1, role |-> "owner", is_active |-> TRUE]
Occ3 == [id |-> "o3", unit_id |-> "u3", name |-> <<"R", "a", "v", "i">>, phone |-> OccPhone3, role |-> "tenant", is_active |-> TRUE]
SrvOccupants == <<Occ1, Occ3>>

Inv1 == [id |-> "i1", unit_id |-> "u1", period_label |-> <<"J", "a", "n">>, amount |-> 5, due_date |-> "2024-01-10", status |-> "due"]
Inv3 == [id |-> "i3", unit_id |-> "u3", period_label |-> <<"F", "e", "b">>, amount |-> 3, due_date |-> "2024-02-10", status |-> "paid"]
InitInvoices == <<Inv1, Inv3>>

\* the month (YYYY-MM) a due date falls in
MonthOf(d) == CASE d = "2024-01-10" -> "2024-01"
                [] d = "2024-02-10" -> "2024-02"
                [] OTHER -> ""

Filter(s, Test(_)) == SelectSeq(s, Test)

UnitsOf(aid) == LET T(u) == u.apartment_id = aid IN Filter(srvUnits, T)
OccupantsOf(uid) == LET T(o) == o.unit_id = uid IN Filter(srvOccupants, T)
\* GET /units/:id/invoices[?month=]
InvoicesOf(uid, month) ==
  LET T(v) == v.unit_id = uid /\ (month = "" \/ MonthOf(v.due_date) = month)
  IN Filter(srvInvoices, T)

RECURSIVE SumAmount(_)
SumAmount(s) == IF s = <<>> THEN 0 ELSE Head(s).amount + SumAmount(Tail(s))

\* GET /dashboard: totals over every invoice of the account
Dashboard ==
  LET Paid(v) == v.status = "paid"
      Due(v) == v.status # "paid"
  IN [overall_due_amount |-> SumAmount(Filter(srvInvoices, Due)),
      overall_paid_amount |-> SumAmount(Filter(srvInvoices, Paid))]

----------------------------------------------------------------------------
(* State after construction (App.jsx:8-66) *)

\* the apartment, unit and occupant forms as useState leaves them
OtherFormsAtLoad ==
  /\ unitName = <<>> /\ unitBhk = "2BHK" /\ unitStatus = "vacant"
  /\ editingUnitId = Null /\ unitNameExists = FALSE
  /\ occName = <<>> /\ occPhone = <<>> /\ occRole = "owner"
  /\ editingOccupantId = Null /\ occPhoneExists = FALSE
  /\ focused = ""

FormsAtLoad ==
  /\ aptName = <<>> /\ aptCity = <<>> /\ aptUnits = <<>>
  /\ editingApartmentId = Null /\ aptNameExists = FALSE
  /\ OtherFormsAtLoad

\* the records the backend holds at the start
BackendAtStart ==
  /\ srvApartments = SrvApartments /\ srvUnits = SrvUnits /\ srvOccupants = SrvOccupants
  /\ srvCreated = 0

\* checkBackend up to its await: GET /health, issued once by the effect on load
ReqHealth == Request("health", "", NoData, NoCtx)

Init ==
  /\ FormsAtLoad /\ BackendAtStart
  /\ backendStatus = "checking..."
  /\ mobile = <<>> /\ requestId = Null /\ otp = "" /\ accessToken = ""
  /\ step = "mobile" /\ error = ""
  /\ net = One(ReqHealth) /\ timers = {}
  /\ popupMessage = NoMsg /\ popupType = "error" /\ showPopup = FALSE /\ aptMessage = ""
  /\ createdApartments = <<>> /\ dashboard = NoDashboard
  /\ selectedApartmentId = Null /\ selectedApartmentName = ""
  /\ units = <<>> /\ selectedUnitId = Null /\ selectedUnitLabel = ""
  /\ occupants = <<>>
  /\ invoices = <<>> /\ invPeriod = <<>> /\ invAmount = <<>> /\ invDueDate = ""
  /\ invFilterMonth = "" /\ editingInvoiceId = Null
  /\ srvOtpReqs = <<>> /\ srvTokens = 0
  /\ srvInvoices = InitInvoices /\ srvNewInv = 0 /\ paidShown = {} /\ unpaidDone = {}

----------------------------------------------------------------------------
(* Login *)

notAuth == <<net, timers, popupVars, homeVars, appVars, srvAuthVars, dataVars>>
notAuthNet == <<timers, popupVars, homeVars, appVars, srvAuthVars, dataVars>>
\* the values of the status field of a 2xx answer of GET /health
HealthValues == { "ok", "degraded" }

\* mobile input onChange (rendered in step mobile)
SetMobile(v) ==
  /\ step = "mobile"
  /\ mobile' = v
  /\ UNCHANGED <<backendStatus, requestId, otp, accessToken, step, error, notAuth>>

\* otp input onChange (rendered in step otp)
SetOtp(v) ==
  /\ step = "otp"
  /\ otp' = v
  /\ UNCHANGED <<backendStatus, mobile, requestId, accessToken, step, error, notAuth>>

\* sendOtp up to its await
SendOtp ==
  /\ step = "mobile"
  /\ IF ~isValidMobile(mobile)
       THEN /\ error' = "Invalid mobile number"
            /\ UNCHANGED net
       ELSE /\ Room(1)
            /\ error' = ""
            /\ net' = Issue(<<Request("sendOtp", "", [mobile |-> mobile], NoCtx)>>)
  /\ UNCHANGED <<backendStatus, mobile, requestId, otp, accessToken, step, timers, popupVars,
                 homeVars, appVars, srvAuthVars, dataVars>>

\* POST /auth/send-otp at the backend
ServeSendOtp(m) ==
  /\ Pending(m, "sendOtp")
  /\ \/ \E dev \in BOOLEAN :
          /\ Len(srvOtpReqs) < MaxOtpReqs
          /\ srvOtpReqs' = Append(srvOtpReqs, [mobile |-> m.body.mobile, used |-> FALSE])
          /\ net' = Answer(m, "2xx", [request_id |-> Rid(Len(srvOtpReqs) + 1),
                                      dev_mode |-> dev, otp |-> ServerOtp])
     \/ \E d \in {"", "Denied"} :
          /\ net' = Answer(m, "non2xx", [detail |-> d])
          /\ UNCHANGED srvOtpReqs
     \/ /\ net' = Answer(m, "exc", NoData)
        /\ UNCHANGED srvOtpReqs
  /\ UNCHANGED <<authVars, timers, popupVars, homeVars, appVars, srvTokens, dataVars>>

\* data.detail || fallback, with the fallback alone
DetailOrIgnored(data, fallback) == fallback

\* data.detail || fallback
DetailOr(data, fallback) == IF data.detail # "" THEN data.detail ELSE fallback

\* sendOtp after its await
ApplySendOtp(m) ==
  /\ Answered(m, "sendOtp")
  /\ net' = Finish(m, <<>>)
  /\ CASE m.res = "exc" ->
            /\ error' = "Could not reach server."
            /\ UNCHANGED <<requestId, otp, step>>
       [] m.res = "non2xx" ->
            /\ error' = DetailOr(m.data, "Failed to send OTP")
            /\ UNCHANGED <<requestId, otp, step>>
       [] OTHER ->
            /\ otp' = (IF m.data.dev_mode /\ m.data.otp # ""
                       THEN m.data.otp ELSE otp)
            /\ requestId' = m.data.request_id
            /\ step' = "otp"
            /\ UNCHANGED error
  /\ UNCHANGED <<backendStatus, mobile, accessToken, timers, popupVars, homeVars, appVars,
                 srvAuthVars, dataVars>>

\* verifyOtp up to its await
VerifyOtp ==
  /\ step = "otp"
  /\ Room(1)
  /\ error' = ""
  /\ net' = Issue(<<Request("verifyOtp", "",
                           [request_id |-> requestId, mobile |-> mobile, otp |-> otp],
                           [mobile |-> mobile])>>)
  /\ UNCHANGED <<backendStatus, mobile, requestId, otp, accessToken, step, timers, popupVars,
                 homeVars, appVars, srvAuthVars, dataVars>>

\* the send-otp request the body of a verify-otp matches, if any
OtpMatch(b) ==
  {n \in 1..Len(srvOtpReqs) :
      /\ Rid(n) = b.request_id
      /\ srvOtpReqs[n].mobile = b.mobile
      /\ ~srvOtpReqs[n].used
      /\ b.otp = ServerOtp}

\* POST /auth/verify-otp at the backend
ServeVerifyOtp(m) ==
  /\ Pending(m, "verifyOtp")
  /\ \/ \E n \in OtpMatch(m.body) :
          /\ srvOtpReqs' = [srvOtpReqs EXCEPT ![n].used = TRUE]
          /\ srvTokens' = srvTokens + 1
          /\ net' = Answer(m, "2xx", [access_token |-> Tok(srvTokens + 1)])
     \/ \E d \in {"", "Denied"} :
          /\ net' = Answer(m, "non2xx", [detail |-> d])
          /\ UNCHANGED srvAuthVars
     \/ /\ net' = Answer(m, "exc", NoData)
        /\ UNCHANGED srvAuthVars
  /\ UNCHANGED <<authVars, timers, popupVars, homeVars, appVars, dataVars>>

\* verifyOtp after its await
ApplyVerifyOtp(m) ==
  /\ Answered(m, "verifyOtp")
  /\ net' = Finish(m, <<>>)
  /\ CASE m.res = "exc" ->
            /\ error' = "Could not reach server."
            /\ UNCHANGED <<accessToken, step, timers, aptMessage>>
       [] m.res = "non2xx" ->
            /\ error' = DetailOr(m.data, "OTP verification failed")
            /\ UNCHANGED <<accessToken, step, timers, aptMessage>>
       [] OTHER ->
            /\ accessToken' = m.data.access_token
            /\ step' = "apartment"
            /\ aptMessage' = "OTP verified! Let's onboard your apartment."
            /\ timers' = timers \cup {[token |-> m.data.access_token,
                                       mobile |-> m.ctx.mobile]}
            /\ UNCHANGED error
  /\ UNCHANGED <<backendStatus, mobile, requestId, otp, popupMessage, popupType, showPopup, homeVars,
                 appVars, srvAuthVars, dataVars>>

\* fetchApartments without the Authorization header
ReqApartmentsNoAuth(token) == <<Request("getApartments", "", NoData, NoCtx)>>

\* fetchApartments(token) up to its await
ReqApartments(token) == <<Request("getApartments", token, NoData, NoCtx)>>
\* fetchDashboard(token) up to its await: nothing when the captured mobile is empty
ReqDashboard(token, m) ==
  IF m = <<>> THEN <<>> ELSE <<Request("getDashboard", token, NoData, NoCtx)>>

\* the setTimeout callback of verifyOtp
LoginTimer(t) ==
  /\ t \in timers
  /\ Room(2)
  /\ timers' = timers \ {t}
  /\ net' = Issue(ReqApartments(t.token) \o ReqDashboard(t.token, t.mobile))
  /\ UNCHANGED <<authVars, popupVars, homeVars, appVars, srvAuthVars, dataVars>>

\* the Back button of step otp
Back ==
  /\ step = "otp"
  /\ step' = "mobile" /\ otp' = "" /\ error' = ""
  /\ UNCHANGED <<backendStatus, mobile, requestId, accessToken, notAuth>>

\* a GET at the backend: 2xx with the payload, non-2xx, or no response
ServeGet(m, kind, payload) ==
  /\ Pending(m, kind)
  /\ \/ net' = Answer(m, "2xx", payload)
     \/ net' = Answer(m, "non2xx", NoData)
     \/ net' = Answer(m, "exc", NoData)
  /\ UNCHANGED <<authVars, timers, popupVars, homeVars, appVars, srvAuthVars, dataVars>>

ServeApartments(m) == ServeGet(m, "getApartments", [apartments |-> srvApartments])
ServeDashboard(m) == ServeGet(m, "getDashboard", Dashboard)

\* data.field || []
ArrayOr(data, field) == IF field \in DOMAIN data THEN data[field] ELSE <<>>

\* fetchApartments after its await
ApplyApartments(m) ==
  /\ Answered(m, "getApartments")
  /\ net' = Finish(m, <<>>)
  /\ createdApartments' = (IF m.res = "2xx" THEN ArrayOr(m.data, "apartments") ELSE <<>>)
  /\ UNCHANGED <<authVars, timers, popupVars, dashboard, appVars, srvAuthVars, dataVars>>

\* fetchDashboard after its await
ApplyDashboard(m) ==
  /\ Answered(m, "getDashboard")
  /\ net' = Finish(m, <<>>)
  /\ dashboard' = (IF m.res = "2xx" THEN m.data ELSE NoDashboard)
  /\ UNCHANGED <<authVars, timers, popupVars, createdApartments, appVars, srvAuthVars, dataVars>>

\* GET /health at the backend
ServeHealth(m) ==
  /\ Pending(m, "health")
  /\ \/ \E s \in HealthValues : net' = Answer(m, "2xx", [status |-> s])
     \/ net' = Answer(m, "non2xx", NoData)
     \/ net' = Answer(m, "exc", NoData)
  /\ UNCHANGED <<authVars, timers, popupVars, homeVars, appVars, srvAuthVars, dataVars>>

\* checkBackend after its await, with any 2xx response taken as online
checkBackendDoneLenient(m) ==
  /\ Answered(m, "health")
  /\ net' = Finish(m, <<>>)
  /\ backendStatus' = (IF m.res = "2xx" THEN "online" ELSE "offline")
  /\ UNCHANGED <<mobile, requestId, otp, accessToken, step, error, notAuthNet>>

\* checkBackend after its await
checkBackendDone(m) ==
  /\ Answered(m, "health")
  /\ net' = Finish(m, <<>>)
  /\ backendStatus' = (IF m.res = "2xx" /\ m.data.status = "ok"
                         THEN "online" ELSE "offline")
  /\ UNCHANGED <<mobile, requestId, otp, accessToken, step, error, notAuthNet>>

LoginNet(m) ==
  \/ ServeHealth(m) \/ checkBackendDone(m)
  \/ ServeSendOtp(m) \/ ApplySendOtp(m)
  \/ ServeVerifyOtp(m) \/ ApplyVerifyOtp(m)
  \/ ServeApartments(m) \/ ApplyApartments(m)
  \/ ServeDashboard(m) \/ ApplyDashboard(m)

Next ==
  \/ \E v \in MobileInputs : SetMobile(v)
  \/ \E v \in OtpInputs : SetOtp(v)
  \/ SendOtp
  \/ VerifyOtp
  \/ Back
  \/ \E t \in timers : LoginTimer(t)
  \/ \E m \in InFlight : LoginNet(m)

Spec == Init /\ [][Next]_vars

\* the login with the health request eventually answered and its answer applied
SpecHealth ==
  /\ Init /\ [][Next]_vars
  /\ WF_vars(\E m \in InFlight : ServeHealth(m))
  /\ WF_vars(\E m \in InFlight : checkBackendDone(m))

\* sendOtp over the cases of the mobile pattern, from the mobile step as it is
\* at load or after send-otp, Back
InitMobile ==
  /\ FormsAtLoad /\ BackendAtStart
  /\ backendStatus = "online"
  /\ mobile \in MobileCases /\ otp = "" /\ accessToken = ""
  /\ step = "mobile" /\ error = ""
  /\ \/ requestId = Null /\ srvOtpReqs = <<>>
     \/ requestId = Rid(1) /\ srvOtpReqs = <<[mobile |-> ValidMobile, used |-> FALSE]>>
  /\ net = EmptyBag /\ timers = {}
  /\ popupMessage = NoMsg /\ popupType = "error" /\ showPopup = FALSE /\ aptMessage = ""
  /\ createdApartments = <<>> /\ dashboard = NoDashboard
  /\ selectedApartmentId = Null /\ selectedApartmentName = ""
  /\ units = <<>> /\ selectedUnitId = Null /\ selectedUnitLabel = ""
  /\ occupants = <<>>
  /\ invoices = <<>> /\ invPeriod = <<>> /\ invAmount = <<>> /\ invDueDate = ""
  /\ invFilterMonth = "" /\ editingInvoiceId = Null
  /\ srvTokens = 0
  /\ srvInvoices = InitInvoices /\ srvNewInv = 0 /\ paidShown = {} /\ unpaidDone = {}

NextMobile ==
  \/ \E v \in MobileCases : SetMobile(v)
  \/ SendOtp

SpecMobile == InitMobile /\ [][NextMobile]_vars

----------------------------------------------------------------------------
(* The authenticated view (step apartment) *)

\* logged in, both refreshes of the login applied, nothing typed
LoggedIn ==
  /\ BackendAtStart
  /\ mobile = ValidMobile /\ requestId = Rid(1) /\ otp = ServerOtp
  /\ backendStatus = "online"
  /\ accessToken = Tok(1) /\ step = "apartment" /\ error = ""
  /\ net = EmptyBag /\ timers = {}
  /\ popupMessage = NoMsg /\ popupType = "error" /\ showPopup = FALSE
  /\ aptMessage = "OTP verified! Let's onboard your apartment."
  /\ createdApartments = SrvApartments
  /\ srvInvoices = InitInvoices /\ srvNewInv = 0 /\ paidShown = {} /\ unpaidDone = {}
  /\ dashboard = Dashboard
  /\ invFilterMonth = ""
  /\ srvOtpReqs = <<[mobile |-> ValidMobile, used |-> TRUE]>> /\ srvTokens = 1

EmptyInvoiceForm ==
  invPeriod = <<>> /\ invAmount = <<>> /\ invDueDate = "" /\ editingInvoiceId = Null

\* the authenticated view as the login leaves it
InitApp ==
  /\ LoggedIn /\ FormsAtLoad
  /\ selectedApartmentId = Null /\ selectedApartmentName = ""
  /\ units = <<>> /\ selectedUnitId = Null /\ selectedUnitLabel = ""
  /\ occupants = <<>> /\ invoices = <<>>
  /\ EmptyInvoiceForm

Elems(seq) == {seq[i] : i \in 1..Len(seq)}
\* the first row of a list, the one whose Edit button is clicked
FirstOf(list) == IF list = <<>> THEN {} ELSE {Head(list)}

\* getAuthHeaders: the Authorization header when a token is held
getAuthHeaders == accessToken

\* NoCtx, or the invoice whose markPaid continuation issued the fetch
Origin(id) == [NoCtx EXCEPT !.paid = id]

\* fetchUnits(apartmentId) up to its await
ReqUnits(token, aid) == <<Request("getUnits", token, [apartment |-> aid], NoCtx)>>
\* fetchOccupants(unitId) up to its await
ReqOccupants(token, uid) == <<Request("getOccupants", token, [unit |-> uid], NoCtx)>>
\* fetchInvoices(unitId, month) up to its await; month "" is undefined
ReqInvoices(token, uid, month, ctx) ==
  <<Request("getInvoices", token, [unit |-> uid, month |-> month], ctx)>>

\* handleSelectApartment(apt), apt a row of the apartments list
handleSelectApartment(apt) ==
  /\ step = "apartment"
  /\ apt \in Elems(createdApartments)
  /\ Room(1)
  /\ selectedApartmentId' = apt.id
  /\ selectedApartmentName' = apt.name
  /\ units' = <<>>
  /\ selectedUnitId' = Null
  /\ selectedUnitLabel' = ""
  /\ occupants' = <<>>
  /\ invoices' = <<>>
  /\ net' = Issue(ReqUnits(getAuthHeaders, apt.id))
  /\ UNCHANGED <<authVars, timers, popupVars, homeVars, occFormVars, invFormVars,
                 invFilterMonth, crudVars, srvAuthVars, dataVars>>

UnitLabel(u) == <<u.name, " (", u.bhk_type, ", ", u.status, ")">>

\* handleSelectUnit(u), u a card of the units grid
handleSelectUnit(u) ==
  /\ step = "apartment"
  /\ selectedApartmentId # Null
  /\ u \in Elems(units)
  /\ Room(1)
  /\ selectedUnitId' = u.id
  /\ selectedUnitLabel' = UnitLabel(u)
  /\ occName' = <<>> /\ occPhone' = <<>> /\ occRole' = "owner"
  /\ invPeriod' = <<>> /\ invAmount' = <<>> /\ invDueDate' = ""
  /\ net' = Issue(ReqOccupants(getAuthHeaders, u.id)
                  \o ReqInvoices(getAuthHeaders, u.id, invFilterMonth, NoCtx))
  /\ UNCHANGED <<authVars, timers, popupVars, homeVars, selectedApartmentId,
                 selectedApartmentName, listVars, editingInvoiceId, invFilterMonth,
                 crudVars, srvAuthVars, dataVars>>

\* the occupant and invoice sections are rendered for a selected unit
unitShown == step = "apartment" /\ selectedUnitId # Null

formRest == <<authVars, net, timers, popupVars, homeVars, selVars, listVars,
              invFilterMonth, crudVars, srvAuthVars, dataVars>>

\* onChange of the occupant form
setOccName(v) ==
  unitShown /\ occName' = v /\ UNCHANGED <<occPhone, occRole, invFormVars, formRest>>
setOccPhone(v) ==
  unitShown /\ occPhone' = v /\ UNCHANGED <<occName, occRole, invFormVars, formRest>>
setOccRole(v) ==
  unitShown /\ occRole' = v /\ UNCHANGED <<occName, occPhone, invFormVars, formRest>>

\* onChange of the invoice form
setInvPeriod(v) ==
  /\ unitShown /\ invPeriod' = v
  /\ UNCHANGED <<invAmount, invDueDate, editingInvoiceId, occFormVars, formRest>>
setInvAmount(v) ==
  /\ unitShown /\ invAmount' = v
  /\ UNCHANGED <<invPeriod, invDueDate, editingInvoiceId, occFormVars, formRest>>
setInvDueDate(v) ==
  /\ unitShown /\ invDueDate' = v
  /\ UNCHANGED <<invPeriod, invAmount, editingInvoiceId, occFormVars, formRest>>

ServeUnits(m) == ServeGet(m, "getUnits", [units |-> UnitsOf(m.body.apartment)])
ServeOccupants(m) == ServeGet(m, "getOccupants", [occupants |-> OccupantsOf(m.body.unit)])
ServeInvoices(m) ==
  ServeGet(m, "getInvoices", [invoices |-> InvoicesOf(m.body.unit, m.body.month)])

\* fetchUnits after its await, a response for another apartment than the
\* selected one being dropped
ApplyUnitsFenced(m) ==
  /\ Answered(m, "getUnits")
  /\ net' = Finish(m, <<>>)
  /\ units' = (IF m.body.apartment # selectedApartmentId THEN units
               ELSE IF m.res = "2xx" THEN ArrayOr(m.data, "units") ELSE <<>>)
  /\ UNCHANGED <<authVars, timers, popupVars, homeVars, selVars, occupants, invoices,
                 occFormVars, invFormVars, invFilterMonth, crudVars, srvAuthVars, dataVars>>

\* fetchUnits after its await
ApplyUnits(m) ==
  /\ Answered(m, "getUnits")
  /\ net' = Finish(m, <<>>)
  /\ units' = (IF m.res = "2xx" THEN ArrayOr(m.data, "units") ELSE <<>>)
  /\ UNCHANGED <<authVars, timers, popupVars, homeVars, selVars, occupants, invoices,
                 occFormVars, invFormVars, invFilterMonth, crudVars, srvAuthVars, dataVars>>

\* fetchOccupants after its await, the held list surviving a failure
ApplyOccupantsKeeping(m) ==
  /\ Answered(m, "getOccupants")
  /\ net' = Finish(m, <<>>)
  /\ occupants' = (IF m.res = "2xx" THEN ArrayOr(m.data, "occupants") ELSE occupants)
  /\ UNCHANGED <<authVars, timers, popupVars, homeVars, selVars, units, invoices,
                 occFormVars, invFormVars, invFilterMonth, crudVars, srvAuthVars, dataVars>>

\* fetchOccupants after its await
ApplyOccupants(m) ==
  /\ Answered(m, "getOccupants")
  /\ net' = Finish(m, <<>>)
  /\ occupants' = (IF m.res = "2xx" THEN ArrayOr(m.data, "occupants") ELSE <<>>)
  /\ UNCHANGED <<authVars, timers, popupVars, homeVars, selVars, units, invoices,
                 occFormVars, invFormVars, invFilterMonth, crudVars, srvAuthVars, dataVars>>

\* an invoice of the held list with this id is shown as paid
ShownPaid(list, id) == \A v \in Elems(list) : v.id = id => v.status = "paid"

\* fetchInvoices after its await; a refresh issued by markPaid is recorded
ApplyInvoices(m) ==
  /\ Answered(m, "getInvoices")
  /\ net' = Finish(m, <<>>)
  /\ invoices' = (IF m.res = "2xx" THEN ArrayOr(m.data, "invoices") ELSE <<>>)
  /\ paidShown' = (IF m.ctx.paid # Null THEN paidShown \cup {m.ctx.paid} ELSE paidShown)
  /\ UNCHANGED <<authVars, timers, popupVars, homeVars, selVars, units, occupants,
                 occFormVars, invFormVars, invFilterMonth, crudVars, srvAuthVars,
                 srvDataVars, srvListVars, unpaidDone>>

SelectNet(m) ==
  \/ ServeUnits(m) \/ ApplyUnits(m)
  \/ ServeOccupants(m) \/ ApplyOccupants(m)
  \/ ServeInvoices(m) \/ ApplyInvoices(m)

\* one non-default value for each form field
OccNameSample == <<"A", "l">>
InvPeriodSample == <<"M", "a", "r">>
InvAmountSample == <<"7">>
InvDueDateSample == "2024-01-10"

NextSelect ==
  \/ \E apt \in Elems(createdApartments) : handleSelectApartment(apt)
  \/ \E u \in Elems(units) : handleSelectUnit(u)
  \/ \E m \in InFlight : SelectNet(m)

SpecSelect == InitApp /\ [][NextSelect]_vars

\* apartment Alpha selected and its units loaded
InitUnits ==
  /\ LoggedIn /\ FormsAtLoad
  /\ selectedApartmentId = AptA.id /\ selectedApartmentName = AptA.name
  /\ units = UnitsOf(AptA.id) /\ selectedUnitId = Null /\ selectedUnitLabel = ""
  /\ occupants = <<>> /\ invoices = <<>>
  /\ EmptyInvoiceForm

\* selecting units and typing into the two forms
NextUnit ==
  \/ \E u \in Elems(units) : handleSelectUnit(u)
  \/ setOccName(OccNameSample)
  \/ setOccPhone(OtherMobile)
  \/ setOccRole("tenant")
  \/ setInvPeriod(InvPeriodSample)
  \/ setInvAmount(InvAmountSample)
  \/ setInvDueDate(InvDueDateSample)
  \/ \E m \in InFlight :
       \/ ServeOccupants(m) \/ ApplyOccupants(m)
       \/ ServeInvoices(m) \/ ApplyInvoices(m)

SpecUnit == InitUnits /\ [][NextUnit]_vars

----------------------------------------------------------------------------
(* Invoices of the selected unit *)

\* showPopupMessage(message, type)
showPopupMessage(message, type) ==
  /\ popupMessage' = message
  /\ popupType' = type
  /\ showPopup' = TRUE
  /\ UNCHANGED aptMessage

\* the setTimeout callback of showPopupMessage
HidePopup ==
  /\ showPopup
  /\ showPopup' = FALSE
  /\ UNCHANGED <<authVars, net, timers, popupMessage, popupType, aptMessage, homeVars,
                 appVars, srvAuthVars, dataVars>>

\* what the closure of a write captured at the click
Captured(editing) ==
  [mobile |-> mobile, token |-> accessToken, apartment |-> selectedApartmentId,
   unit |-> selectedUnitId, month |-> invFilterMonth, editing |-> editing]

\* the refresh after a successful write: fetchInvoices, then fetchDashboard
Refresh(ctx, origin) ==
  ReqInvoices(ctx.token, ctx.unit, ctx.month, origin) \o ReqDashboard(ctx.token, ctx.mobile)

\* the first validation of createInvoice that fails, "" when all pass
InvoiceError ==
  CASE selectedUnitId = Null -> "Please select a unit first."
    [] Trim(invPeriod) = <<>> -> "Period label is required (e.g., 'Jan 2024')"
    [] Len(Trim(invPeriod)) < MinPeriodLen -> "Period label must be at least 3 characters"
    [] invAmount = <<>> \/ LeqZero(parseInt(invAmount)) -> "Amount must be greater than 0"
    [] invDueDate = "" -> "Due date is required"
    [] OTHER -> ""

\* createInvoice up to its await: POST for a new invoice, PUT when editing
createInvoice ==
  /\ unitShown
  /\ IF InvoiceError # ""
       THEN /\ showPopupMessage(Msg(InvoiceError, <<>>), "error")
            /\ UNCHANGED net
       ELSE /\ Room(1)
            /\ net' = Issue(<<Request("saveInvoice", getAuthHeaders,
                                      [id |-> editingInvoiceId, unit |-> selectedUnitId,
                                       period_label |-> Trim(invPeriod),
                                       amount |-> parseInt(invAmount),
                                       due_date |-> invDueDate],
                                      Captured(editingInvoiceId))>>)
            /\ UNCHANGED popupVars
  /\ UNCHANGED <<authVars, timers, homeVars, appVars, srvAuthVars, dataVars>>

\* createInvoice after its await
createInvoiceDone(m) ==
  /\ Answered(m, "saveInvoice")
  /\ CASE m.res = "exc" ->
            /\ showPopupMessage(Msg("Could not reach server.", <<>>), "error")
            /\ net' = Finish(m, <<>>)
            /\ UNCHANGED invFormVars
       [] m.res = "non2xx" ->
            /\ showPopupMessage(Msg(DetailOr(m.data, "Could not save invoice."), <<>>), "error")
            /\ net' = Finish(m, <<>>)
            /\ UNCHANGED invFormVars
       [] OTHER ->
            /\ showPopupMessage(
                 Msg(IF m.ctx.editing # Null THEN "Invoice for \"$\" updated successfully!"
                                             ELSE "Invoice for \"$\" created successfully!",
                     m.data.period_label), "success")
            /\ invPeriod' = <<>> /\ invAmount' = <<>> /\ invDueDate' = ""
            /\ editingInvoiceId' = Null
            /\ net' = Finish(m, Refresh(m.ctx, NoCtx))
  /\ UNCHANGED <<authVars, timers, homeVars, selVars, listVars, occFormVars,
                 invFilterMonth, crudVars, srvAuthVars, dataVars>>

\* editInvoice(inv), inv a row of the invoices table
editInvoice(inv) ==
  /\ unitShown
  /\ inv \in Elems(invoices)
  /\ invPeriod' = inv.period_label
  /\ invAmount' = toString(inv.amount)
  /\ invDueDate' = inv.due_date
  /\ editingInvoiceId' = inv.id
  /\ UNCHANGED <<occFormVars, formRest>>

\* cancelEditInvoice: the Cancel button, rendered while editing
cancelEditInvoice ==
  /\ unitShown
  /\ editingInvoiceId # Null
  /\ invPeriod' = <<>> /\ invAmount' = <<>> /\ invDueDate' = ""
  /\ editingInvoiceId' = Null
  /\ UNCHANGED <<occFormVars, formRest>>

\* onChange of the month filter, rendered while the invoices list is not empty
changeInvFilterMonth(v) ==
  /\ unitShown
  /\ invoices # <<>>
  /\ Room(1)
  /\ invFilterMonth' = v
  /\ net' = Issue(ReqInvoices(getAuthHeaders, selectedUnitId, v, NoCtx))
  /\ UNCHANGED <<authVars, timers, popupVars, homeVars, selVars, listVars, occFormVars,
                 invFormVars, crudVars, srvAuthVars, dataVars>>

\* a button of a row of the invoices table: the request it issues
RowClick(inv, kind) ==
  /\ unitShown
  /\ inv \in Elems(invoices)
  /\ Room(1)
  /\ net' = Issue(<<Request(kind, getAuthHeaders, [id |-> inv.id], Captured(Null))>>)
  /\ UNCHANGED <<authVars, timers, popupVars, homeVars, appVars, srvAuthVars, dataVars>>

\* deleteInvoice(id) up to its await; nothing when confirm() is declined
deleteInvoice(inv, confirmed) ==
  IF confirmed THEN RowClick(inv, "deleteInvoice")
  ELSE unitShown /\ inv \in Elems(invoices) /\ UNCHANGED vars
\* markPaid(id) up to its await: the button of a row that is not paid
markPaid(inv) == inv.status # "paid" /\ RowClick(inv, "markPaid")
\* markUnpaid(id) up to its await: the button of a paid row
markUnpaid(inv) == inv.status = "paid" /\ RowClick(inv, "markUnpaid")

\* the continuation with the refresh issued after a refusal as well
RowDoneRefreshing(m, kind, fallback, success, origin) ==
  /\ Answered(m, kind)
  /\ CASE m.res = "exc" ->
            /\ showPopupMessage(Msg("Could not reach server.", <<>>), "error")
            /\ net' = Finish(m, <<>>)
       [] m.res = "non2xx" ->
            /\ showPopupMessage(Msg(DetailOr(m.data, fallback), <<>>), "error")
            /\ net' = Finish(m, Refresh(m.ctx, origin))
       [] OTHER ->
            /\ showPopupMessage(Msg(success, <<>>), "success")
            /\ net' = Finish(m, Refresh(m.ctx, origin))
  /\ UNCHANGED <<authVars, timers, homeVars, appVars, srvAuthVars, dataVars>>

\* deleteInvoice, markPaid, markUnpaid after their await
RowDone(m, kind, fallback, success, origin) ==
  /\ Answered(m, kind)
  /\ CASE m.res = "exc" ->
            /\ showPopupMessage(Msg("Could not reach server.", <<>>), "error")
            /\ net' = Finish(m, <<>>)
       [] m.res = "non2xx" ->
            /\ showPopupMessage(Msg(DetailOr(m.data, fallback), <<>>), "error")
            /\ net' = Finish(m, <<>>)
       [] OTHER ->
            /\ showPopupMessage(Msg(success, <<>>), "success")
            /\ net' = Finish(m, Refresh(m.ctx, origin))
  /\ UNCHANGED <<authVars, timers, homeVars, appVars, srvAuthVars, dataVars>>

deleteInvoiceDone(m) ==
  RowDone(m, "deleteInvoice", "Could not delete invoice.", "Invoice deleted successfully!", NoCtx)
markPaidDone(m) ==
  RowDone(m, "markPaid", "Could not mark invoice as paid.", "Invoice marked as paid!",
          Origin(m.body.id))
markUnpaidDone(m) ==
  RowDone(m, "markUnpaid", "Could not mark invoice as unpaid.", "Invoice marked as unpaid!",
          NoCtx)

\* ---- the backend's side of the writes

NewId(n) == "n" \o ToString(n)
Known(id) == \E v \in Elems(srvInvoices) : v.id = id
Stored(id) == CHOOSE v \in Elems(srvInvoices) : v.id = id
Put(w) == [i \in 1..Len(srvInvoices) |-> IF srvInvoices[i].id = w.id THEN w ELSE srvInvoices[i]]
Denials == {NoData}

\* a write at the backend: refused, unreachable, or carried out
ServeWrite(m, kind, can, data, after, unpaid) ==
  /\ Pending(m, kind)
  /\ \/ /\ can
        /\ net' = Answer(m, "2xx", data)
        /\ srvInvoices' = after
        /\ unpaidDone' = unpaidDone \cup unpaid
     \/ /\ \E d \in Denials : net' = Answer(m, "non2xx", d)
        /\ UNCHANGED <<srvInvoices, unpaidDone>>
     \/ /\ net' = Answer(m, "exc", NoData)
        /\ UNCHANGED <<srvInvoices, unpaidDone>>
  /\ UNCHANGED <<authVars, timers, popupVars, homeVars, appVars, srvAuthVars, srvListVars,
                 paidShown>>

\* POST /units/:id/invoices
ServeCreateInvoice(m) ==
  LET w == [id |-> NewId(srvNewInv + 1), unit_id |-> m.body.unit,
            period_label |-> m.body.period_label, amount |-> m.body.amount.val,
            due_date |-> m.body.due_date, status |-> "due"]
  IN /\ Pending(m, "saveInvoice") /\ m.body.id = Null
     /\ ServeWrite(m, "saveInvoice", ~m.body.amount.nan /\ srvNewInv < MaxNewInv,
                   w, Append(srvInvoices, w), {})
     /\ srvNewInv' = Len(srvInvoices') - Len(srvInvoices) + srvNewInv

\* PUT /invoices/:id
ServeUpdateInvoice(m) ==
  LET w == [Stored(m.body.id) EXCEPT !.period_label = m.body.period_label,
                                     !.amount = m.body.amount.val,
                                     !.due_date = m.body.due_date]
  IN /\ Pending(m, "saveInvoice") /\ m.body.id # Null
     /\ ServeWrite(m, "saveInvoice", ~m.body.amount.nan /\ Known(m.body.id),
                   w, Put(w), {})
     /\ UNCHANGED srvNewInv

\* DELETE /invoices/:id
ServeDeleteInvoice(m) ==
  LET Other(v) == v.id # m.body.id
  IN /\ ServeWrite(m, "deleteInvoice", Known(m.body.id), NoData,
                   Filter(srvInvoices, Other), {})
     /\ UNCHANGED srvNewInv

\* POST /invoices/:id/mark-paid
ServeMarkPaid(m) ==
  LET w == [Stored(m.body.id) EXCEPT !.status = "paid"]
  IN /\ ServeWrite(m, "markPaid", Known(m.body.id), w, Put(w), {})
     /\ UNCHANGED srvNewInv

\* POST /invoices/:id/mark-unpaid
ServeMarkUnpaid(m) ==
  LET w == [Stored(m.body.id) EXCEPT !.status = "due"]
  IN /\ ServeWrite(m, "markUnpaid", Known(m.body.id), w, Put(w), {m.body.id})
     /\ UNCHANGED srvNewInv

\* unit A-101 of Alpha selected, its occupants and invoices loaded
Unit1Open ==
  /\ LoggedIn
  /\ selectedApartmentId = AptA.id /\ selectedApartmentName = AptA.name
  /\ units = UnitsOf(AptA.id)
  /\ selectedUnitId = Unit1.id /\ selectedUnitLabel = UnitLabel(Unit1)
  /\ occupants = OccupantsOf(Unit1.id)
  /\ invoices = InvoicesOf(Unit1.id, "")

InitInvoice == Unit1Open /\ FormsAtLoad /\ EmptyInvoiceForm

\* what the user types into the invoice form and the month filter
PeriodInputs == { <<>>, <<" ", "J", "a", "n">> }
\* empty, zero, positive, negative, and a negative fraction written without
\* its leading zero
AmountInputs == { <<>>, <<"0">>, <<"5">>, <<"-", "5">>, <<"-", ".", "5">> }
DueDateInputs == { "", "2024-01-10" }
MonthInputs == { "", "2024-01" }

\* filling in the invoice form and clicking Create/Update, the backend not
\* answering yet
NextForm ==
  \/ \E v \in PeriodInputs : setInvPeriod(v)
  \/ \E v \in AmountInputs : setInvAmount(v)
  \/ \E v \in DueDateInputs : setInvDueDate(v)
  \/ createInvoice
  \/ \E inv \in Elems(invoices) : editInvoice(inv)
  \/ cancelEditInvoice
  \/ HidePopup

SpecForm == InitInvoice /\ [][NextForm]_vars

\* a valid invoice form
ValidPeriod == <<" ", "J", "a", "n">>
ValidAmount == <<"5">>
ValidDueDate == "2024-01-10"

InitSave ==
  /\ Unit1Open /\ FormsAtLoad
  /\ invPeriod = ValidPeriod /\ invAmount = ValidAmount /\ invDueDate = ValidDueDate
  /\ editingInvoiceId = Null

\* saving and deleting invoices from a valid form
NextSave ==
  \/ createInvoice
  \/ \E inv \in Elems(invoices) : editInvoice(inv)
  \/ cancelEditInvoice
  \/ \E inv \in Elems(invoices), ok \in BOOLEAN : deleteInvoice(inv, ok)
  \/ HidePopup
  \/ \E m \in InFlight :
       \/ ServeCreateInvoice(m) \/ ServeUpdateInvoice(m) \/ createInvoiceDone(m)
       \/ ServeDeleteInvoice(m) \/ deleteInvoiceDone(m)
       \/ ServeInvoices(m) \/ ApplyInvoices(m)
       \/ ServeDashboard(m) \/ ApplyDashboard(m)

SpecSave == InitSave /\ [][NextSave]_vars

\* the buttons of the invoice rows and the month filter
NextInvoice ==
  \/ \E v \in MonthInputs : changeInvFilterMonth(v)
  \/ \E inv \in Elems(invoices) : markPaid(inv)
  \/ \E inv \in Elems(invoices) : markUnpaid(inv)
  \/ HidePopup
  \/ \E m \in InFlight :
       \/ ServeInvoices(m) \/ ApplyInvoices(m)
       \/ ServeDashboard(m) \/ ApplyDashboard(m)
       \/ ServeMarkPaid(m) \/ markPaidDone(m)
       \/ ServeMarkUnpaid(m) \/ markUnpaidDone(m)

SpecInvoice == InitInvoice /\ [][NextInvoice]_vars

----------------------------------------------------------------------------
(* Apartments *)

\* minimum length of an apartment name and of a city
MinNameLen == 2

\* the three setters of showPopupMessage
popupShown(message, type) ==
  popupMessage' = message /\ popupType' = type /\ showPopup' = TRUE

aptRest == <<authVars, timers, homeVars, selVars, listVars, occFormVars, invFormVars,
             invFilterMonth, unitFormVars, occEditVars, srvAuthVars, dataVars>>

\* no modelled input has the focus: a click elsewhere is delivered
Unfocused == focused = ""

\* onChange of the apartment name input, which has the focus while typed into
setAptName(v) ==
  /\ step = "apartment" /\ focused \in {"", "aptName"}
  /\ aptName' = v /\ focused' = "aptName"
  /\ UNCHANGED <<aptCity, aptUnits, editingApartmentId, aptNameExists, net, popupVars, aptRest>>
\* onChange of the city and total units inputs
setAptCity(v) ==
  /\ step = "apartment" /\ Unfocused
  /\ aptCity' = v
  /\ UNCHANGED <<aptName, aptUnits, editingApartmentId, aptNameExists, focused, net,
                 popupVars, aptRest>>
setAptUnits(v) ==
  /\ step = "apartment" /\ Unfocused
  /\ aptUnits' = v
  /\ UNCHANGED <<aptName, aptCity, editingApartmentId, aptNameExists, focused, net,
                 popupVars, aptRest>>

\* checkApartmentNameExists(name) up to its await: onBlur of the name input
checkApartmentNameExists ==
  /\ step = "apartment" /\ focused = "aptName"
  /\ focused' = ""
  /\ IF Trim(aptName) = <<>> \/ Len(aptName) < MinNameLen
       THEN aptNameExists' = FALSE /\ UNCHANGED net
       ELSE /\ Room(1)
            /\ net' = Issue(<<Request("checkAptName", getAuthHeaders,
                                      [name |-> Trim(aptName)],
                                      Captured(editingApartmentId))>>)
            /\ UNCHANGED aptNameExists
  /\ UNCHANGED <<aptName, aptCity, aptUnits, editingApartmentId, popupVars, aptRest>>

\* checkApartmentNameExists after its await
checkApartmentNameDone(m) ==
  /\ Answered(m, "checkAptName")
  /\ net' = Finish(m, <<>>)
  /\ aptNameExists' =
       (/\ m.res = "2xx"
        /\ m.data.exists
        /\ ~(m.ctx.editing # Null /\ m.data.apartment_id = m.ctx.editing))
  /\ UNCHANGED <<aptName, aptCity, aptUnits, editingApartmentId, focused, popupVars, aptRest>>

\* the first validation of createApartment that fails, "" when all pass
ApartmentError ==
  CASE Trim(aptName) = <<>> -> "Apartment name is required"
    [] Len(Trim(aptName)) < MinNameLen -> "Apartment name must be at least 2 characters"
    [] aptNameExists -> "Apartment name already exists"
    [] Trim(aptCity) = <<>> -> "City is required"
    [] Len(Trim(aptCity)) < MinNameLen -> "City name must be at least 2 characters"
    [] aptUnits = <<>> \/ LeqZero(parseInt(aptUnits)) -> "Total units must be greater than 0"
    [] OTHER -> ""

\* createApartment up to its await: POST for a new apartment, PUT when editing
createApartment ==
  /\ step = "apartment" /\ Unfocused
  /\ aptMessage' = ""
  /\ IF ApartmentError # ""
       THEN /\ popupShown(Msg(ApartmentError, <<>>), "error")
            /\ UNCHANGED net
       ELSE /\ Room(1)
            /\ net' = Issue(<<Request("saveApartment", getAuthHeaders,
                                      [id |-> editingApartmentId, name |-> Trim(aptName),
                                       city |-> Trim(aptCity),
                                       total_units |-> parseInt(aptUnits)],
                                      Captured(editingApartmentId))>>)
            /\ UNCHANGED <<popupMessage, popupType, showPopup>>
  /\ UNCHANGED <<authVars, timers, homeVars, appVars, srvAuthVars, dataVars>>

\* createApartment after its await
\* createApartment after its await, a failed request being sent again
createApartmentDoneRetrying(m) ==
  /\ Answered(m, "saveApartment")
  /\ CASE m.res # "2xx" ->
            /\ showPopupMessage(Msg("Could not reach server.", <<>>), "error")
            /\ net' = Finish(m, <<Request(m.kind, m.auth, m.body, m.ctx)>>)
            /\ UNCHANGED aptFormVars
       [] OTHER ->
            /\ showPopupMessage(Msg("Apartment \"$\" created successfully!", m.data.name),
                                "success")
            /\ aptName' = <<>> /\ aptCity' = <<>> /\ aptUnits' = <<>>
            /\ editingApartmentId' = Null
            /\ net' = Finish(m, ReqApartments(m.ctx.token)
                                \o ReqDashboard(m.ctx.token, m.ctx.mobile))
            /\ UNCHANGED aptNameExists
  /\ UNCHANGED <<focused, aptRest>>

\* createApartment after its await
createApartmentDone(m) ==
  /\ Answered(m, "saveApartment")
  /\ CASE m.res = "exc" ->
            /\ showPopupMessage(Msg("Could not reach server.", <<>>), "error")
            /\ net' = Finish(m, <<>>)
            /\ UNCHANGED aptFormVars
       [] m.res = "non2xx" ->
            /\ showPopupMessage(Msg(DetailOr(m.data, "Could not save apartment."), <<>>), "error")
            /\ net' = Finish(m, <<>>)
            /\ UNCHANGED aptFormVars
       [] OTHER ->
            /\ showPopupMessage(
                 Msg(IF m.ctx.editing # Null THEN "Apartment \"$\" updated successfully!"
                                             ELSE "Apartment \"$\" created successfully!",
                     m.data.name), "success")
            /\ aptName' = <<>> /\ aptCity' = <<>> /\ aptUnits' = <<>>
            /\ editingApartmentId' = Null
            /\ net' = Finish(m, ReqApartments(m.ctx.token)
                                \o ReqDashboard(m.ctx.token, m.ctx.mobile))
            /\ UNCHANGED aptNameExists
  /\ UNCHANGED <<focused, aptRest>>

\* editApartment(apt): the edit button of a row of the apartments list
editApartment(apt) ==
  /\ step = "apartment" /\ Unfocused
  /\ apt \in Elems(createdApartments)
  /\ aptName' = apt.name /\ aptCity' = apt.city /\ aptUnits' = toString(apt.total_units)
  /\ editingApartmentId' = apt.id
  /\ aptNameExists' = FALSE
  /\ UNCHANGED <<focused, net, popupVars, aptRest>>

\* cancelEditApartment: the Cancel button, rendered while editing
cancelEditApartment ==
  /\ step = "apartment" /\ Unfocused
  /\ editingApartmentId # Null
  /\ aptName' = <<>> /\ aptCity' = <<>> /\ aptUnits' = <<>>
  /\ editingApartmentId' = Null
  /\ aptNameExists' = FALSE
  /\ UNCHANGED <<focused, net, popupVars, aptRest>>

\* ---- the backend's side

\* apartments, units and occupants the backend creates in one behaviour
MaxNewRec == 1

NewRecId(n) == "x" \o ToString(n)
\* the apartments other than id that carry this name
AptNamed(name, id) == {a \in Elems(srvApartments) : a.name = name /\ a.id # id}
\* s with the record that has w's id replaced by w
PutIn(s, w) == [i \in 1..Len(s) |-> IF s[i].id = w.id THEN w ELSE s[i]]
HasId(s, id) == \E r \in Elems(s) : r.id = id
WithId(s, id) == CHOOSE r \in Elems(s) : r.id = id
Without(s, id) == LET Other(r) == r.id # id IN Filter(s, Other)

\* GET /apartments/check-name?name=
ServeCheckAptName(m) ==
  /\ Pending(m, "checkAptName")
  /\ ServeGet(m, "checkAptName",
              IF AptNamed(m.body.name, Null) = {}
                THEN [exists |-> FALSE, apartment_id |-> Null]
                ELSE [exists |-> TRUE,
                      apartment_id |-> (CHOOSE a \in AptNamed(m.body.name, Null) : TRUE).id])

\* the apartments, units and occupants the backend holds
Held == [apartments |-> srvApartments, units |-> srvUnits, occupants |-> srvOccupants,
         created |-> srvCreated]

\* a write to them at the backend: carried out, refused or unreachable
ServeRecordWrite(m, can, data, after) ==
  /\ \/ /\ can
        /\ net' = Answer(m, "2xx", data)
        /\ srvApartments' = after.apartments
        /\ srvUnits' = after.units
        /\ srvOccupants' = after.occupants
        /\ srvCreated' = after.created
     \/ /\ \E d \in Denials : net' = Answer(m, "non2xx", d)
        /\ UNCHANGED srvListVars
     \/ /\ net' = Answer(m, "exc", NoData)
        /\ UNCHANGED srvListVars
  /\ UNCHANGED <<authVars, timers, popupVars, homeVars, appVars, srvAuthVars, srvDataVars,
                 histVars>>

\* POST /apartments: a new apartment, unless the name is taken
ServeCreateApartment(m) ==
  /\ Pending(m, "saveApartment") /\ m.body.id = Null
  /\ LET w == [id |-> NewRecId(srvCreated + 1), name |-> m.body.name, city |-> m.body.city,
               total_units |-> m.body.total_units.val]
     IN ServeRecordWrite(m, /\ ~m.body.total_units.nan
                            /\ AptNamed(m.body.name, Null) = {}
                            /\ srvCreated < MaxNewRec,
                         w, [Held EXCEPT !.apartments = Append(srvApartments, w),
                                         !.created = srvCreated + 1])

\* PUT /apartments/:id: the apartment with the values of the body, unless
\* another apartment has the name
ServeUpdateApartment(m) ==
  /\ Pending(m, "saveApartment") /\ m.body.id # Null
  /\ LET w == [id |-> m.body.id, name |-> m.body.name, city |-> m.body.city,
               total_units |-> m.body.total_units.val]
     IN ServeRecordWrite(m, /\ ~m.body.total_units.nan
                            /\ AptNamed(m.body.name, m.body.id) = {}
                            /\ HasId(srvApartments, m.body.id),
                         w, [Held EXCEPT !.apartments = PutIn(srvApartments, w)])

\* what the user types into the apartment form
AptNameInputs == { <<>>, <<"G">>, <<" ", "G", "a">> }
AptCityInputs == { <<>>, <<"P">>, <<"P", "u", "n", "e">> }
\* empty, zero, positive, and a negative fraction written without its leading zero
AptUnitsInputs == { <<>>, <<"0">>, <<"2">>, <<"-", ".", "5">> }

\* filling in the apartment form and clicking Create/Update, the backend not
\* answering yet
NextAptForm ==
  \/ \E v \in AptNameInputs : setAptName(v)
  \/ \E v \in AptCityInputs : setAptCity(v)
  \/ \E v \in AptUnitsInputs : setAptUnits(v)
  \/ checkApartmentNameExists
  \/ createApartment
  \/ \E apt \in Elems(createdApartments) : editApartment(apt)
  \/ cancelEditApartment
  \/ HidePopup

SpecAptForm == InitApp /\ [][NextAptForm]_vars

----------------------------------------------------------------------------
(* Units and occupants *)

\* the units section is rendered for a selected apartment
aptShown == step = "apartment" /\ selectedApartmentId # Null

unitRest == <<authVars, timers, homeVars, occFormVars, invFormVars, invFilterMonth,
              aptFormVars, occEditVars, focused, srvAuthVars, dataVars>>

\* the first validation of createUnit that fails, "" when all pass
UnitError ==
  CASE selectedApartmentId = Null -> "Please select an apartment first."
    [] Trim(unitName) = <<>> -> "Unit name is required"
    [] unitNameExists -> "Unit name already exists in this apartment"
    [] OTHER -> ""

\* createUnit that posts to the collection whatever the editing id
createUnitPosting ==
  /\ aptShown /\ Unfocused
  /\ IF UnitError # ""
       THEN /\ showPopupMessage(Msg(UnitError, <<>>), "error")
            /\ UNCHANGED net
       ELSE /\ Room(1)
            /\ net' = Issue(<<Request("saveUnit", getAuthHeaders,
                                      [id |-> Null, apartment |-> selectedApartmentId,
                                       name |-> Trim(unitName), bhk_type |-> unitBhk,
                                       status |-> unitStatus],
                                      Captured(editingUnitId))>>)
            /\ UNCHANGED popupVars
  /\ UNCHANGED <<authVars, timers, homeVars, appVars, srvAuthVars, dataVars>>

\* createUnit up to its await: POST for a new unit, PUT when editing
createUnit ==
  /\ aptShown /\ Unfocused
  /\ IF UnitError # ""
       THEN /\ showPopupMessage(Msg(UnitError, <<>>), "error")
            /\ UNCHANGED net
       ELSE /\ Room(1)
            /\ net' = Issue(<<Request("saveUnit", getAuthHeaders,
                                      [id |-> editingUnitId, apartment |-> selectedApartmentId,
                                       name |-> Trim(unitName), bhk_type |-> unitBhk,
                                       status |-> unitStatus],
                                      Captured(editingUnitId))>>)
            /\ UNCHANGED popupVars
  /\ UNCHANGED <<authVars, timers, homeVars, appVars, srvAuthVars, dataVars>>

\* the continuation with the form cleared after a refusal as well
createUnitDoneClearing(m) ==
  /\ Answered(m, "saveUnit")
  /\ CASE m.res = "exc" ->
            /\ showPopupMessage(Msg("Could not reach server.", <<>>), "error")
            /\ net' = Finish(m, <<>>)
            /\ UNCHANGED unitFormVars
       [] m.res = "non2xx" ->
            /\ showPopupMessage(Msg(DetailOr(m.data, "Could not save unit."), <<>>), "error")
            /\ net' = Finish(m, <<>>)
            /\ unitName' = <<>> /\ unitBhk' = "2BHK" /\ unitStatus' = "vacant"
            /\ editingUnitId' = Null
            /\ UNCHANGED unitNameExists
       [] OTHER ->
            /\ showPopupMessage(
                 Msg(IF m.ctx.editing # Null THEN "Unit \"$\" updated successfully!"
                                             ELSE "Unit \"$\" created successfully!",
                     m.data.name), "success")
            /\ unitName' = <<>> /\ unitBhk' = "2BHK" /\ unitStatus' = "vacant"
            /\ editingUnitId' = Null
            /\ net' = Finish(m, ReqUnits(m.ctx.token, m.ctx.apartment)
                                \o ReqDashboard(m.ctx.token, m.ctx.mobile))
            /\ UNCHANGED unitNameExists
  /\ UNCHANGED <<selVars, listVars, unitRest>>

\* createUnit after its await
createUnitDone(m) ==
  /\ Answered(m, "saveUnit")
  /\ CASE m.res = "exc" ->
            /\ showPopupMessage(Msg("Could not reach server.", <<>>), "error")
            /\ net' = Finish(m, <<>>)
            /\ UNCHANGED unitFormVars
       [] m.res = "non2xx" ->
            /\ showPopupMessage(Msg(DetailOr(m.data, "Could not save unit."), <<>>), "error")
            /\ net' = Finish(m, <<>>)
            /\ UNCHANGED unitFormVars
       [] OTHER ->
            /\ showPopupMessage(
                 Msg(IF m.ctx.editing # Null THEN "Unit \"$\" updated successfully!"
                                             ELSE "Unit \"$\" created successfully!",
                     m.data.name), "success")
            /\ unitName' = <<>> /\ unitBhk' = "2BHK" /\ unitStatus' = "vacant"
            /\ editingUnitId' = Null
            /\ net' = Finish(m, ReqUnits(m.ctx.token, m.ctx.apartment)
                                \o ReqDashboard(m.ctx.token, m.ctx.mobile))
            /\ UNCHANGED unitNameExists
  /\ UNCHANGED <<selVars, listVars, unitRest>>

\* editUnit(u): the Edit button of a unit card
editUnit(u) ==
  /\ aptShown /\ Unfocused
  /\ u \in Elems(units)
  /\ unitName' = u.name /\ unitBhk' = u.bhk_type /\ unitStatus' = u.status
  /\ editingUnitId' = u.id
  /\ unitNameExists' = FALSE
  /\ UNCHANGED <<net, popupVars, selVars, listVars, unitRest>>

\* cancelEditUnit: the Cancel button, rendered while editing
cancelEditUnit ==
  /\ aptShown /\ Unfocused
  /\ editingUnitId # Null
  /\ unitName' = <<>> /\ unitBhk' = "2BHK" /\ unitStatus' = "vacant"
  /\ editingUnitId' = Null
  /\ unitNameExists' = FALSE
  /\ UNCHANGED <<net, popupVars, selVars, listVars, unitRest>>

\* a Delete button whose confirm() was accepted: the request it issues
DeleteClick(kind, id) ==
  /\ Room(1)
  /\ net' = Issue(<<Request(kind, getAuthHeaders, [id |-> id], Captured(Null))>>)
  /\ UNCHANGED <<authVars, timers, popupVars, homeVars, appVars, srvAuthVars, dataVars>>

\* deleteUnit(unitId) up to its await; nothing when confirm() is declined
deleteUnit(u, confirmed) ==
  /\ aptShown /\ Unfocused
  /\ u \in Elems(units)
  /\ IF confirmed THEN DeleteClick("deleteUnit", u.id) ELSE UNCHANGED vars

\* deleteUnit after its await
deleteUnitDone(m) ==
  /\ Answered(m, "deleteUnit")
  /\ CASE m.res = "exc" ->
            /\ showPopupMessage(Msg("Could not reach server.", <<>>), "error")
            /\ net' = Finish(m, <<>>)
            /\ UNCHANGED <<selVars, listVars>>
       [] m.res = "non2xx" ->
            /\ showPopupMessage(Msg(DetailOr(m.data, "Could not delete unit."), <<>>), "error")
            /\ net' = Finish(m, <<>>)
            /\ UNCHANGED <<selVars, listVars>>
       [] OTHER ->
            /\ showPopupMessage(Msg("Unit deleted successfully!", <<>>), "success")
            /\ net' = Finish(m, ReqUnits(m.ctx.token, m.ctx.apartment)
                                \o ReqDashboard(m.ctx.token, m.ctx.mobile))
            /\ IF m.ctx.unit = m.body.id
                 THEN /\ selectedUnitId' = Null /\ selectedUnitLabel' = ""
                      /\ occupants' = <<>> /\ invoices' = <<>>
                      /\ UNCHANGED <<selectedApartmentId, selectedApartmentName, units>>
                 ELSE UNCHANGED <<selVars, listVars>>
  /\ UNCHANGED <<unitFormVars, unitRest>>

occRest == <<authVars, timers, homeVars, selVars, listVars, invFormVars, invFilterMonth,
             aptFormVars, unitFormVars, focused, srvAuthVars, dataVars>>

\* minimum length of an occupant's phone number
MinPhoneLen == 10

\* the first validation of createOccupant that fails, "" when all pass
OccupantError ==
  CASE selectedUnitId = Null -> "Please select a unit first."
    [] Trim(occName) = <<>> -> "Occupant name is required"
    [] Len(Trim(occName)) < MinNameLen -> "Name must be at least 2 characters"
    [] Trim(occPhone) = <<>> -> "Phone number is required"
    [] Len(Trim(occPhone)) < MinPhoneLen -> "Phone number must be at least 10 digits"
    [] occPhoneExists -> "Phone number already exists in this unit"
    [] OTHER -> ""

\* createOccupant up to its await: POST for a new occupant, PUT when editing
createOccupant ==
  /\ unitShown /\ Unfocused
  /\ IF OccupantError # ""
       THEN /\ showPopupMessage(Msg(OccupantError, <<>>), "error")
            /\ UNCHANGED net
       ELSE /\ Room(1)
            /\ net' = Issue(<<Request("saveOccupant", getAuthHeaders,
                                      [id |-> editingOccupantId, unit |-> selectedUnitId,
                                       name |-> Trim(occName), phone |-> Trim(occPhone),
                                       role |-> occRole],
                                      Captured(editingOccupantId))>>)
            /\ UNCHANGED popupVars
  /\ UNCHANGED <<authVars, timers, homeVars, appVars, srvAuthVars, dataVars>>

\* the refresh without fetchUnits
OccupantRefreshNoUnits(ctx) ==
  ReqOccupants(ctx.token, ctx.unit) \o ReqDashboard(ctx.token, ctx.mobile)

\* the refresh after a write to the occupants: fetchOccupants, fetchUnits when
\* an apartment is selected, fetchDashboard
OccupantRefresh(ctx) ==
  ReqOccupants(ctx.token, ctx.unit)
  \o (IF ctx.apartment # Null THEN ReqUnits(ctx.token, ctx.apartment) ELSE <<>>)
  \o ReqDashboard(ctx.token, ctx.mobile)

\* createOccupant after its await
createOccupantDone(m) ==
  /\ Answered(m, "saveOccupant")
  /\ CASE m.res = "exc" ->
            /\ showPopupMessage(Msg("Could not reach server.", <<>>), "error")
            /\ net' = Finish(m, <<>>)
            /\ UNCHANGED <<occFormVars, editingOccupantId>>
       [] m.res = "non2xx" ->
            /\ showPopupMessage(Msg(DetailOr(m.data, "Could not save occupant."), <<>>), "error")
            /\ net' = Finish(m, <<>>)
            /\ UNCHANGED <<occFormVars, editingOccupantId>>
       [] OTHER ->
            /\ showPopupMessage(
                 IF m.ctx.editing # Null
                   THEN Msg("Occupant \"$\" updated successfully!", m.data.name)
                   ELSE Msg("Occupant \"$\" ($) added successfully!",
                            m.data.name \o <<m.data.role>>), "success")
            /\ occName' = <<>> /\ occPhone' = <<>> /\ occRole' = "owner"
            /\ editingOccupantId' = Null
            /\ net' = Finish(m, OccupantRefresh(m.ctx))
  /\ UNCHANGED <<occPhoneExists, occRest>>

\* editOccupant(occ): the Edit button of a row of the occupants list
editOccupant(occ) ==
  /\ unitShown /\ Unfocused
  /\ occ \in Elems(occupants)
  /\ occName' = occ.name /\ occPhone' = occ.phone /\ occRole' = occ.role
  /\ editingOccupantId' = occ.id
  /\ occPhoneExists' = FALSE
  /\ UNCHANGED <<net, popupVars, occRest>>

\* cancelEditOccupant: the Cancel button, rendered while editing
cancelEditOccupant ==
  /\ unitShown /\ Unfocused
  /\ editingOccupantId # Null
  /\ occName' = <<>> /\ occPhone' = <<>> /\ occRole' = "owner"
  /\ editingOccupantId' = Null
  /\ occPhoneExists' = FALSE
  /\ UNCHANGED <<net, popupVars, occRest>>

\* deleteOccupant without the confirm() guard
deleteOccupantUnasked(occ, confirmed) ==
  /\ unitShown /\ Unfocused
  /\ occ \in Elems(occupants)
  /\ DeleteClick("deleteOccupant", occ.id)

\* deleteOccupant(id) up to its await; nothing when confirm() is declined
deleteOccupant(occ, confirmed) ==
  /\ unitShown /\ Unfocused
  /\ occ \in Elems(occupants)
  /\ IF confirmed THEN DeleteClick("deleteOccupant", occ.id) ELSE UNCHANGED vars

\* deleteOccupant after its await
deleteOccupantDone(m) ==
  /\ Answered(m, "deleteOccupant")
  /\ CASE m.res = "exc" ->
            /\ showPopupMessage(Msg("Could not reach server.", <<>>), "error")
            /\ net' = Finish(m, <<>>)
       [] m.res = "non2xx" ->
            /\ showPopupMessage(Msg(DetailOr(m.data, "Could not delete occupant."), <<>>),
                                "error")
            /\ net' = Finish(m, <<>>)
       [] OTHER ->
            /\ showPopupMessage(Msg("Occupant deleted successfully!", <<>>), "success")
            /\ net' = Finish(m, OccupantRefresh(m.ctx))
  /\ UNCHANGED <<occFormVars, occEditVars, occRest>>

\* ---- the backend's side

\* the units of an apartment other than id that carry this name
UnitNamed(aid, name, id) ==
  {u \in Elems(srvUnits) : u.apartment_id = aid /\ u.name = name /\ u.id # id}
\* the occupants of a unit other than id that have this phone number
OccPhoned(uid, phone, id) ==
  {o \in Elems(srvOccupants) : o.unit_id = uid /\ o.phone = phone /\ o.id # id}

\* POST /apartments/:id/units
ServeCreateUnit(m) ==
  /\ Pending(m, "saveUnit") /\ m.body.id = Null
  /\ LET w == [id |-> NewRecId(srvCreated + 1), apartment_id |-> m.body.apartment,
               name |-> m.body.name, bhk_type |-> m.body.bhk_type, status |-> m.body.status]
     IN ServeRecordWrite(m, /\ UnitNamed(m.body.apartment, m.body.name, Null) = {}
                            /\ srvCreated < MaxNewRec,
                         w, [Held EXCEPT !.units = Append(srvUnits, w),
                                         !.created = srvCreated + 1])

\* PUT /units/:id
ServeUpdateUnit(m) ==
  /\ Pending(m, "saveUnit") /\ m.body.id # Null
  /\ LET old == WithId(srvUnits, m.body.id)
         w == [old EXCEPT !.name = m.body.name, !.bhk_type = m.body.bhk_type,
                          !.status = m.body.status]
     IN ServeRecordWrite(m, /\ HasId(srvUnits, m.body.id)
                            /\ UnitNamed(old.apartment_id, m.body.name, m.body.id) = {},
                         w, [Held EXCEPT !.units = PutIn(srvUnits, w)])

\* DELETE /units/:id
ServeDeleteUnit(m) ==
  /\ Pending(m, "deleteUnit")
  /\ ServeRecordWrite(m, HasId(srvUnits, m.body.id), NoData,
                      [Held EXCEPT !.units = Without(srvUnits, m.body.id)])

\* POST /units/:id/occupants
ServeCreateOccupant(m) ==
  /\ Pending(m, "saveOccupant") /\ m.body.id = Null
  /\ LET w == [id |-> NewRecId(srvCreated + 1), unit_id |-> m.body.unit,
               name |-> m.body.name, phone |-> m.body.phone, role |-> m.body.role,
               is_active |-> TRUE]
     IN ServeRecordWrite(m, /\ OccPhoned(m.body.unit, m.body.phone, Null) = {}
                            /\ srvCreated < MaxNewRec,
                         w, [Held EXCEPT !.occupants = Append(srvOccupants, w),
                                         !.created = srvCreated + 1])

\* PUT /occupants/:id
ServeUpdateOccupant(m) ==
  /\ Pending(m, "saveOccupant") /\ m.body.id # Null
  /\ LET old == WithId(srvOccupants, m.body.id)
         w == [old EXCEPT !.name = m.body.name, !.phone = m.body.phone,
                          !.role = m.body.role]
     IN ServeRecordWrite(m, /\ HasId(srvOccupants, m.body.id)
                            /\ OccPhoned(old.unit_id, m.body.phone, m.body.id) = {},
                         w, [Held EXCEPT !.occupants = PutIn(srvOccupants, w)])

\* DELETE /occupants/:id
ServeDeleteOccupant(m) ==
  /\ Pending(m, "deleteOccupant")
  /\ ServeRecordWrite(m, HasId(srvOccupants, m.body.id), NoData,
                      [Held EXCEPT !.occupants = Without(srvOccupants, m.body.id)])

----------------------------------------------------------------------------
(* The uniqueness checks of the unit name and the occupant's phone *)

\* what a form leaves alone besides its own fields, the focus and the requests
checkRest == <<authVars, timers, popupVars, homeVars, selVars, listVars, invFormVars,
               invFilterMonth, srvAuthVars, dataVars>>

\* onChange of the unit name input, which has the focus while typed into
setUnitName(v) ==
  /\ aptShown /\ focused \in {"", "unitName"}
  /\ unitName' = v /\ focused' = "unitName"
  /\ UNCHANGED <<unitBhk, unitStatus, editingUnitId, unitNameExists, net, aptFormVars,
                 occFormVars, occEditVars, checkRest>>

\* the answer to a check applied as if it always reported the value free
checkUnitNameDoneOpen(m) ==
  /\ Answered(m, "checkUnitName")
  /\ net' = Finish(m, <<>>)
  /\ unitNameExists' = FALSE
  /\ UNCHANGED <<unitName, unitBhk, unitStatus, editingUnitId, focused, aptFormVars,
                 occFormVars, occEditVars, checkRest>>

\* checkUnitNameExists(name) up to its await: onBlur of the unit name input
checkUnitNameExists ==
  /\ aptShown /\ focused = "unitName"
  /\ focused' = ""
  /\ IF selectedApartmentId = Null \/ Trim(unitName) = <<>>
       THEN unitNameExists' = FALSE /\ UNCHANGED net
       ELSE /\ Room(1)
            /\ net' = Issue(<<Request("checkUnitName", getAuthHeaders,
                                      [apartment |-> selectedApartmentId,
                                       name |-> Trim(unitName)],
                                      Captured(editingUnitId))>>)
            /\ UNCHANGED unitNameExists
  /\ UNCHANGED <<unitName, unitBhk, unitStatus, editingUnitId, aptFormVars, occFormVars,
                 occEditVars, checkRest>>

\* checkUnitNameExists after its await
checkUnitNameDone(m) ==
  /\ Answered(m, "checkUnitName")
  /\ net' = Finish(m, <<>>)
  /\ unitNameExists' =
       (/\ m.res = "2xx"
        /\ m.data.exists
        /\ ~(m.ctx.editing # Null /\ m.data.unit_id = m.ctx.editing))
  /\ UNCHANGED <<unitName, unitBhk, unitStatus, editingUnitId, focused, aptFormVars,
                 occFormVars, occEditVars, checkRest>>

\* the phone input of the occupant form takes the focus
focusOccPhone ==
  /\ unitShown /\ Unfocused
  /\ focused' = "occPhone"
  /\ UNCHANGED <<net, aptFormVars, unitFormVars, occFormVars, occEditVars, checkRest>>

\* checkOccupantPhoneExists(phone) up to its await: onBlur of the phone input
checkOccupantPhoneExists ==
  /\ unitShown /\ focused = "occPhone"
  /\ focused' = ""
  /\ IF selectedUnitId = Null \/ Trim(occPhone) = <<>> \/ Len(Trim(occPhone)) < MinPhoneLen
       THEN occPhoneExists' = FALSE /\ UNCHANGED net
       ELSE /\ Room(1)
            /\ net' = Issue(<<Request("checkOccPhone", getAuthHeaders,
                                      [unit |-> selectedUnitId, phone |-> Trim(occPhone)],
                                      Captured(editingOccupantId))>>)
            /\ UNCHANGED occPhoneExists
  /\ UNCHANGED <<editingOccupantId, aptFormVars, unitFormVars, occFormVars, checkRest>>

\* checkOccupantPhoneExists after its await
checkOccupantPhoneDone(m) ==
  /\ Answered(m, "checkOccPhone")
  /\ net' = Finish(m, <<>>)
  /\ occPhoneExists' =
       (/\ m.res = "2xx"
        /\ m.data.exists
        /\ ~(m.ctx.editing # Null /\ m.data.occupant_id = m.ctx.editing))
  /\ UNCHANGED <<editingOccupantId, focused, aptFormVars, unitFormVars, occFormVars,
                 checkRest>>

\* GET /apartments/:id/units/check-name?name=
ServeCheckUnitName(m) ==
  /\ Pending(m, "checkUnitName")
  /\ LET found == UnitNamed(m.body.apartment, m.body.name, Null)
     IN ServeGet(m, "checkUnitName",
                 IF found = {} THEN [exists |-> FALSE, unit_id |-> Null]
                 ELSE [exists |-> TRUE, unit_id |-> (CHOOSE u \in found : TRUE).id])

\* GET /units/:id/occupants/check-phone?phone=
ServeCheckOccPhone(m) ==
  /\ Pending(m, "checkOccPhone")
  /\ LET found == OccPhoned(m.body.unit, m.body.phone, Null)
     IN ServeGet(m, "checkOccPhone",
                 IF found = {} THEN [exists |-> FALSE, occupant_id |-> Null]
                 ELSE [exists |-> TRUE, occupant_id |-> (CHOOSE o \in found : TRUE).id])

----------------------------------------------------------------------------
(* The writes of the four forms and of the row buttons *)

NewAptName == <<"G", "a">>
NewUnitName == <<"A", "3">>

\* the four forms filled in with valid values for a new record
NewForms ==
  /\ aptName = NewAptName /\ aptCity = AptA.city /\ aptUnits = <<"2">>
  /\ editingApartmentId = Null
  /\ unitName = NewUnitName /\ unitBhk = "2BHK" /\ unitStatus = "vacant"
  /\ editingUnitId = Null
  /\ occName = OccNameSample /\ occPhone = OtherMobile /\ occRole = "owner"
  /\ editingOccupantId = Null
  /\ invPeriod = ValidPeriod /\ invAmount = ValidAmount /\ invDueDate = ValidDueDate
  /\ editingInvoiceId = Null

\* the four forms as the Edit buttons of Alpha, A-102, Asha and the January
\* invoice fill them
EditForms ==
  /\ aptName = AptA.name /\ aptCity = AptA.city /\ aptUnits = toString(AptA.total_units)
  /\ editingApartmentId = AptA.id
  /\ unitName = Unit2.name /\ unitBhk = Unit2.bhk_type /\ unitStatus = Unit2.status
  /\ editingUnitId = Unit2.id
  /\ occName = Occ1.name /\ occPhone = Occ1.phone /\ occRole = Occ1.role
  /\ editingOccupantId = Occ1.id
  /\ invPeriod = Inv1.period_label /\ invAmount = toString(Inv1.amount)
  /\ invDueDate = Inv1.due_date
  /\ editingInvoiceId = Inv1.id

\* unit A-101 open and the four forms filled in, all for a new record or all
\* for an edit
InitWrites ==
  /\ Unit1Open
  /\ NewForms \/ EditForms
  /\ aptNameExists = FALSE /\ unitNameExists = FALSE /\ occPhoneExists = FALSE
  /\ focused = ""

\* the continuations of the writes and the backend's side of them
WriteNet(m) ==
  \/ ServeCreateApartment(m) \/ ServeUpdateApartment(m) \/ createApartmentDone(m)
  \/ ServeCreateUnit(m) \/ ServeUpdateUnit(m) \/ createUnitDone(m)
  \/ ServeDeleteUnit(m) \/ deleteUnitDone(m)
  \/ ServeCreateOccupant(m) \/ ServeUpdateOccupant(m) \/ createOccupantDone(m)
  \/ ServeDeleteOccupant(m) \/ deleteOccupantDone(m)
  \/ ServeCreateInvoice(m) \/ ServeUpdateInvoice(m) \/ createInvoiceDone(m)
  \/ ServeDeleteInvoice(m) \/ deleteInvoiceDone(m)
  \/ ServeMarkPaid(m) \/ markPaidDone(m)
  \/ ServeMarkUnpaid(m) \/ markUnpaidDone(m)

NextWrites ==
  \/ createApartment
  \/ createUnit
  \/ createOccupant
  \/ createInvoice
  \/ \E u \in Elems(units), ok \in BOOLEAN : deleteUnit(u, ok)
  \/ \E occ \in Elems(occupants), ok \in BOOLEAN : deleteOccupant(occ, ok)
  \/ \E inv \in Elems(invoices), ok \in BOOLEAN : deleteInvoice(inv, ok)
  \/ \E inv \in Elems(invoices) : markPaid(inv)
  \/ \E inv \in Elems(invoices) : markUnpaid(inv)
  \/ \E apt \in Elems(createdApartments) : handleSelectApartment(apt)
  \/ \E v \in MonthInputs : changeInvFilterMonth(v)
  \/ \E m \in InFlight : WriteNet(m) \/ ServeInvoices(m) \/ ApplyInvoices(m)

SpecWrites == InitWrites /\ [][NextWrites]_vars

\* the four forms with their Edit and Cancel buttons; the refresh after a
\* write stays outstanding
NextEdit ==
  \/ createApartment
  \/ createUnit
  \/ createOccupant
  \/ createInvoice
  \/ \E apt \in FirstOf(createdApartments) : editApartment(apt)
  \/ \E u \in FirstOf(units) : editUnit(u)
  \/ \E occ \in FirstOf(occupants) : editOccupant(occ)
  \/ \E inv \in FirstOf(invoices) : editInvoice(inv)
  \/ cancelEditApartment
  \/ cancelEditUnit
  \/ cancelEditOccupant
  \/ cancelEditInvoice
  \/ \E m \in InFlight :
       \/ ServeCreateApartment(m) \/ ServeUpdateApartment(m) \/ createApartmentDone(m)
       \/ ServeCreateUnit(m) \/ ServeUpdateUnit(m) \/ createUnitDone(m)
       \/ ServeCreateOccupant(m) \/ ServeUpdateOccupant(m) \/ createOccupantDone(m)
       \/ ServeCreateInvoice(m) \/ ServeUpdateInvoice(m) \/ createInvoiceDone(m)

InitEdit ==
  /\ Unit1Open /\ NewForms
  /\ aptNameExists = FALSE /\ unitNameExists = FALSE /\ occPhoneExists = FALSE
  /\ focused = ""

SpecEdit == InitEdit /\ [][NextEdit]_vars

\* what is typed into the three checked inputs: nothing, one character or a
\* short number, a value a record has, a value none has
CheckedNames == { <<>>, <<"G">>, AptA.name, NewAptName }
CheckedUnitNames == { <<>>, <<" ">>, Unit1.name, NewUnitName }
CheckedPhones == { <<>>, <<"9", "0">>, Occ1.phone, OtherMobile }

\* no check is waiting for its answer
Idle == net = EmptyBag

\* typing into the three inputs, leaving them, Edit and Cancel; an input is
\* left while no other check is waiting for its answer
NextChecks ==
  \/ \E v \in CheckedNames : setAptName(v)
  \/ Idle /\ checkApartmentNameExists
  \/ \E apt \in FirstOf(createdApartments) : editApartment(apt)
  \/ cancelEditApartment
  \/ \E v \in CheckedUnitNames : setUnitName(v)
  \/ Idle /\ checkUnitNameExists
  \/ \E u \in FirstOf(units) : editUnit(u)
  \/ cancelEditUnit
  \/ \E v \in CheckedPhones : setOccPhone(v)
  \/ focusOccPhone
  \/ Idle /\ checkOccupantPhoneExists
  \/ \E occ \in FirstOf(occupants) : editOccupant(occ)
  \/ cancelEditOccupant
  \/ \E m \in InFlight :
       \/ ServeCheckAptName(m) \/ checkApartmentNameDone(m)
       \/ ServeCheckUnitName(m) \/ checkUnitNameDone(m)
       \/ ServeCheckOccPhone(m) \/ checkOccupantPhoneDone(m)

SpecChecks == InitInvoice /\ [][NextChecks]_vars

\* the apartment name of a row of the list, and a name no apartment has
AptNameChoices == { AptA.name, NewAptName }

\* logged in, nothing selected, city and total units typed in
InitAptCheck ==
  /\ LoggedIn /\ OtherFormsAtLoad
  /\ selectedApartmentId = Null /\ selectedApartmentName = ""
  /\ units = <<>> /\ selectedUnitId = Null /\ selectedUnitLabel = ""
  /\ occupants = <<>> /\ invoices = <<>>
  /\ EmptyInvoiceForm
  /\ aptName = <<>> /\ aptCity = AptA.city /\ aptUnits = <<"2">>
  /\ editingApartmentId = Null /\ aptNameExists = FALSE

\* typing an apartment name, leaving the field, submitting; the refresh after
\* a write stays outstanding
NextAptCheck ==
  \/ \E v \in AptNameChoices : setAptName(v)
  \/ checkApartmentNameExists
  \/ createApartment
  \/ \E apt \in Elems(createdApartments) : editApartment(apt)
  \/ cancelEditApartment
  \/ \E m \in InFlight :
       \/ ServeCheckAptName(m) \/ checkApartmentNameDone(m)
       \/ ServeCreateApartment(m) \/ ServeUpdateApartment(m) \/ createApartmentDone(m)

SpecAptCheck == InitAptCheck /\ [][NextAptCheck]_vars

----------------------------------------------------------------------------
(* Deleting a unit while units are being selected *)

\* unit cards are clicked and deleted; their fetches are answered
NextDeleteUnit ==
  \/ \E u \in Elems(units) : handleSelectUnit(u)
  \/ \E u \in Elems(units), ok \in BOOLEAN : deleteUnit(u, ok)
  \/ \E m \in InFlight :
       \/ ServeDeleteUnit(m) \/ deleteUnitDone(m)
       \/ SelectNet(m)

SpecDeleteUnit == InitUnits /\ [][NextDeleteUnit]_vars

----------------------------------------------------------------------------
(* Editing a record, then selecting another apartment or unit *)

\* the Edit buttons of the first rows, the apartment rows and unit cards; the
\* fetches of a selected unit stay outstanding
NextEditSelect ==
  \/ \E u \in FirstOf(units) : editUnit(u)
  \/ \E occ \in FirstOf(occupants) : editOccupant(occ)
  \/ \E inv \in FirstOf(invoices) : editInvoice(inv)
  \/ \E apt \in Elems(createdApartments) : handleSelectApartment(apt)
  \/ \E u \in Elems(units) : handleSelectUnit(u)
  \/ \E m \in InFlight : ServeUnits(m) \/ ApplyUnits(m)

SpecEditSelect == InitInvoice /\ [][NextEditSelect]_vars

----------------------------------------------------------------------------
(* The month filter *)

\* the filter bar is rendered above a non-empty invoices table
filterShown == unitShown /\ invoices # <<>>

\* no filter, the month of the January invoice, a month without invoices
FilterMonths == { "", "2024-01", "2024-02" }

\* typing into the filter and selecting units
NextFilter ==
  \/ \E v \in FilterMonths : changeInvFilterMonth(v)
  \/ \E u \in Elems(units) : handleSelectUnit(u)
  \/ \E m \in InFlight :
       \/ ServeInvoices(m) \/ ApplyInvoices(m)
       \/ ServeOccupants(m) \/ ApplyOccupants(m)

SpecFilter == InitInvoice /\ [][NextFilter]_vars

----------------------------------------------------------------------------
(* Every request answered successfully *)

\* every response in flight after the step is a 2xx
AllOk == \A m \in BagToSet(net') : m.st = "resp" => m.res = "2xx"

\* selecting and filtering against a backend that answers every request
NextConverge ==
  \/ \E apt \in Elems(createdApartments) : handleSelectApartment(apt)
  \/ \E u \in Elems(units) : handleSelectUnit(u)
  \/ \E v \in MonthInputs : changeInvFilterMonth(v)
  \/ \E m \in InFlight :
       \/ ServeUnits(m) /\ AllOk
       \/ ServeOccupants(m) /\ AllOk
       \/ ServeInvoices(m) /\ AllOk
       \/ ApplyUnits(m) \/ ApplyOccupants(m) \/ ApplyInvoices(m)

SpecConverge == InitApp /\ [][NextConverge]_vars

----------------------------------------------------------------------------
(* Send OTP clicked twice *)

\* Send OTP was clicked twice in step mobile and the backend answered both
\* requests: the first response has been applied (step otp, first request id,
\* otp filled in dev mode), the second response has not yet been applied
InitResend ==
  /\ FormsAtLoad /\ BackendAtStart
  /\ backendStatus = "online"
  /\ mobile = ValidMobile /\ requestId = Rid(1) /\ otp = ServerOtp /\ accessToken = ""
  /\ step = "otp" /\ error = ""
  /\ net = One([Request("sendOtp", "", [mobile |-> ValidMobile], NoCtx) EXCEPT
                  !.st = "resp", !.res = "2xx",
                  !.data = [request_id |-> Rid(2), dev_mode |-> TRUE, otp |-> ServerOtp]])
  /\ timers = {}
  /\ popupMessage = NoMsg /\ popupType = "error" /\ showPopup = FALSE /\ aptMessage = ""
  /\ createdApartments = <<>> /\ dashboard = NoDashboard
  /\ selectedApartmentId = Null /\ selectedApartmentName = ""
  /\ units = <<>> /\ selectedUnitId = Null /\ selectedUnitLabel = ""
  /\ occupants = <<>> /\ invoices = <<>>
  /\ EmptyInvoiceForm /\ invFilterMonth = ""
  /\ srvOtpReqs = <<[mobile |-> ValidMobile, used |-> FALSE],
                    [mobile |-> ValidMobile, used |-> FALSE]>>
  /\ srvTokens = 0
  /\ srvInvoices = InitInvoices /\ srvNewInv = 0 /\ paidShown = {} /\ unpaidDone = {}

\* verifyOtp and Back, the second send-otp response at any moment, and the
\* refreshes of the login
NextResend ==
  \/ VerifyOtp
  \/ Back
  \/ \E t \in timers : LoginTimer(t)
  \/ \E m \in InFlight :
       \/ ApplySendOtp(m)
       \/ ServeVerifyOtp(m) \/ ApplyVerifyOtp(m)
       \/ ServeApartments(m) \/ ApplyApartments(m)
       \/ ServeDashboard(m) \/ ApplyDashboard(m)

SpecResend == InitResend /\ [][NextResend]_vars

----------------------------------------------------------------------------
(* Renaming the selected apartment and the selected unit *)

\* the first apartment and the first unit are edited, renamed and saved while
\* they are selected; the user acts when no request is in flight, and every
\* refresh that follows a save is answered and applied
NextRename ==
  \/ \E apt \in FirstOf(createdApartments) : Idle /\ editApartment(apt)
  \/ Idle /\ setAptName(NewAptName)
  \/ Idle /\ checkApartmentNameExists
  \/ Idle /\ createApartment
  \/ \E u \in FirstOf(units) : Idle /\ editUnit(u)
  \/ Idle /\ setUnitName(NewUnitName)
  \/ Idle /\ checkUnitNameExists
  \/ Idle /\ createUnit
  \/ \E m \in InFlight :
       \/ ServeCheckAptName(m) \/ checkApartmentNameDone(m)
       \/ ServeCheckUnitName(m) \/ checkUnitNameDone(m)
       \/ ServeUpdateApartment(m) \/ createApartmentDone(m)
       \/ ServeUpdateUnit(m) \/ createUnitDone(m)
       \/ ServeApartments(m) \/ ApplyApartments(m)
       \/ ServeUnits(m) \/ ApplyUnits(m)
       \/ ServeDashboard(m) \/ ApplyDashboard(m)

SpecRename == InitEdit /\ [][NextRename]_vars

----------------------------------------------------------------------------
(* An expired or invalid token *)

\* the body of a 401 response
Unauthorized == [detail |-> "Invalid or expired token"]

\* the backend refuses an authenticated request with 401
ServeUnauthorized(m) ==
  /\ m \in InFlight /\ m.st = "sent" /\ m.auth # ""
  /\ net' = Answer(m, "non2xx", Unauthorized)
  /\ UNCHANGED <<authVars, timers, popupVars, homeVars, appVars, srvAuthVars, dataVars>>

\* selecting apartments and units while the token may expire
NextExpiry ==
  \/ NextSelect
  \/ \E m \in InFlight : ServeUnauthorized(m)

SpecExpiry == InitApp /\ [][NextExpiry]_vars

----------------------------------------------------------------------------
(* A second login while the first verify-otp is still in flight *)

\* verifyOtp of the first send-otp was clicked, then Back, then sendOtp again:
\* step otp with the second request id, the first verify-otp not yet answered
InitRelogin ==
  /\ FormsAtLoad /\ BackendAtStart
  /\ backendStatus = "online"
  /\ mobile = ValidMobile /\ requestId = Rid(2) /\ otp = ServerOtp /\ accessToken = ""
  /\ step = "otp" /\ error = ""
  /\ net = One(Request("verifyOtp", "",
                       [request_id |-> Rid(1), mobile |-> ValidMobile, otp |-> ServerOtp],
                       [mobile |-> ValidMobile]))
  /\ timers = {}
  /\ popupMessage = NoMsg /\ popupType = "error" /\ showPopup = FALSE /\ aptMessage = ""
  /\ createdApartments = <<>> /\ dashboard = NoDashboard
  /\ selectedApartmentId = Null /\ selectedApartmentName = ""
  /\ units = <<>> /\ selectedUnitId = Null /\ selectedUnitLabel = ""
  /\ occupants = <<>> /\ invoices = <<>>
  /\ EmptyInvoiceForm /\ invFilterMonth = ""
  /\ srvOtpReqs = <<[mobile |-> ValidMobile, used |-> FALSE],
                    [mobile |-> ValidMobile, used |-> FALSE]>>
  /\ srvTokens = 0
  /\ srvInvoices = InitInvoices /\ srvNewInv = 0 /\ paidShown = {} /\ unpaidDone = {}

\* the second verifyOtp, the responses in any order, the callbacks of both logins,
\* and the first clicks of the authenticated view
NextRelogin ==
  \/ VerifyOtp
  \/ Back
  \/ \E t \in timers : LoginTimer(t)
  \/ \E apt \in Elems(createdApartments) : handleSelectApartment(apt)
  \/ \E m \in InFlight :
       \/ ServeVerifyOtp(m) \/ ApplyVerifyOtp(m)
       \/ ServeApartments(m) \/ ApplyApartments(m)
       \/ ServeDashboard(m) \/ ApplyDashboard(m)
       \/ ServeUnits(m) \/ ApplyUnits(m)

SpecRelogin == InitRelogin /\ [][NextRelogin]_vars

----------------------------------------------------------------------------
(* The five fetches *)

\* verify-otp has just succeeded: its callback is pending, nothing is loaded
InitFetch ==
  /\ BackendAtStart /\ FormsAtLoad
  /\ mobile = ValidMobile /\ requestId = Rid(1) /\ otp = ServerOtp
  /\ backendStatus = "online"
  /\ accessToken = Tok(1) /\ step = "apartment" /\ error = ""
  /\ net = EmptyBag /\ timers = {[token |-> Tok(1), mobile |-> ValidMobile]}
  /\ popupMessage = NoMsg /\ popupType = "error" /\ showPopup = FALSE
  /\ aptMessage = "OTP verified! Let's onboard your apartment."
  /\ createdApartments = <<>> /\ dashboard = NoDashboard
  /\ selectedApartmentId = Null /\ selectedApartmentName = ""
  /\ units = <<>> /\ selectedUnitId = Null /\ selectedUnitLabel = ""
  /\ occupants = <<>> /\ invoices = <<>>
  /\ EmptyInvoiceForm /\ invFilterMonth = ""
  /\ srvOtpReqs = <<[mobile |-> ValidMobile, used |-> TRUE]>> /\ srvTokens = 1
  /\ srvInvoices = InitInvoices /\ srvNewInv = 0 /\ paidShown = {} /\ unpaidDone = {}

\* the callback of the login, then selecting apartments and units
NextFetch ==
  \/ \E t \in timers : LoginTimer(t)
  \/ \E apt \in Elems(createdApartments) : handleSelectApartment(apt)
  \/ \E u \in Elems(units) : handleSelectUnit(u)
  \/ \E m \in InFlight :
       \/ ServeApartments(m) \/ ApplyApartments(m)
       \/ ServeDashboard(m) \/ ApplyDashboard(m)
       \/ SelectNet(m)

SpecFetch == InitFetch /\ [][NextFetch]_vars

\* the lists a GET returns in an array field of its body
ListKinds == {"getApartments", "getUnits", "getOccupants", "getInvoices"}

\* a list GET answered 2xx with a body that lacks the array field
ServeBare(m) ==
  /\ m \in InFlight /\ m.kind \in ListKinds /\ m.st = "sent"
  /\ net' = Answer(m, "2xx", NoData)
  /\ UNCHANGED <<authVars, timers, popupVars, homeVars, appVars, srvAuthVars, dataVars>>

\* the five fetches with every outcome of a response
NextRefresh ==
  \/ NextFetch
  \/ \E m \in InFlight : ServeBare(m)

SpecRefresh == InitFetch /\ [][NextRefresh]_vars

----------------------------------------------------------------------------
(* Saving an apartment, with the fetches that follow *)

\* logged in, a new apartment typed in, its name checked
InitAptSave ==
  /\ LoggedIn /\ OtherFormsAtLoad
  /\ selectedApartmentId = Null /\ selectedApartmentName = ""
  /\ units = <<>> /\ selectedUnitId = Null /\ selectedUnitLabel = ""
  /\ occupants = <<>> /\ invoices = <<>>
  /\ EmptyInvoiceForm
  /\ aptName = NewAptName /\ aptCity = AptA.city /\ aptUnits = <<"2">>
  /\ editingApartmentId = Null /\ aptNameExists = FALSE

\* submitting the form, selecting an apartment, the backend's answers
NextAptSave ==
  \/ createApartment
  \/ \E apt \in Elems(createdApartments) : handleSelectApartment(apt)
  \/ \E m \in InFlight :
       \/ ServeCreateApartment(m) \/ createApartmentDone(m)
       \/ ServeApartments(m) \/ ApplyApartments(m)
       \/ ServeDashboard(m) \/ ApplyDashboard(m)
       \/ ServeUnits(m) \/ ApplyUnits(m)

SpecAptSave == InitAptSave /\ [][NextAptSave]_vars

----------------------------------------------------------------------------
(* Claims about the login *)

\* the response m is consumed by its continuation in this step
Consumed(m, kind) == Answered(m, kind) /\ CopiesIn(m, net') = CopiesIn(m, net) - 1
\* the requests this step puts in flight
IssuedNow == {r \in BagToSet(net') : r.st = "sent" /\ CopiesIn(r, net') > CopiesIn(r, net)}

TenDigitsFrom6To9(m) ==
  /\ Len(m) = 10
  /\ \A i \in 1..Len(m) : m[i] \in Digit
  /\ m[1] \notin {"0", "1", "2", "3", "4", "5"}

\* C1: sendOtp issues POST /auth/send-otp with the held mobile exactly when the
\* mobile is ten decimal digits starting 6-9; for every other string it issues
\* nothing, sets the error to "Invalid mobile number" and leaves step (mobile)
\* and requestId as they were.
C1_SendOtpIffValidMobile ==
  [][SendOtp =>
       IF TenDigitsFrom6To9(mobile)
         THEN /\ net' = net (+) One(Request("sendOtp", "", [mobile |-> mobile], NoCtx))
         ELSE /\ net' = net
              /\ error' = "Invalid mobile number"
              /\ step = "mobile" /\ step' = "mobile"
              /\ requestId' = requestId]_vars

\* sendOtp has rejected ten digits with a leading 5 and has sent a valid number
C1_Witness ==
  /\ error = "Invalid mobile number"
  /\ Len(mobile) = 10 /\ mobile[1] = "5" /\ \A i \in 2..10 : mobile[i] \in Digit
  /\ requestId = Rid(1)
  /\ \E r \in InFlight : r.kind = "sendOtp" /\ r.body.mobile[1] \in {"6", "7", "8", "9"}

\* C8: a send-otp response is applied as follows: 2xx stores its request_id
\* and sets step to otp; non-2xx sets the error to the server's detail, or to
\* "Failed to send OTP" without one; an exception sets the connectivity
\* message; both failures leave step and requestId as they were.
C8_SendOtpResponse ==
  [][\A m \in InFlight : Consumed(m, "sendOtp") =>
       CASE m.res = "2xx" -> requestId' = m.data.request_id /\ step' = "otp"
         [] m.res = "non2xx" ->
              /\ error' = (IF m.data.detail = "" THEN "Failed to send OTP" ELSE m.data.detail)
              /\ step' = step /\ requestId' = requestId
         [] OTHER ->
              /\ error' = "Could not reach server."
              /\ step' = step /\ requestId' = requestId]_vars

\* a 2xx response was applied, then Back, then a failure with a server detail:
\* the step is still mobile and the stored request id is the earlier one
C8_Witness ==
  /\ step = "mobile" /\ requestId = Rid(1) /\ error = "Denied"
  /\ net = EmptyBag

\* C9: verifyOtp sends the held requestId, mobile and otp; a 2xx response
\* stores the returned token, sets step to apartment and schedules the
\* callback that issues GET /apartments and GET /dashboard together, both with
\* that token; a failure sets an error, leaves step and token as they were
\* and schedules or issues nothing.
C9_VerifyOtp ==
  /\ [][VerifyOtp =>
          IssuedNow = {Request("verifyOtp", "",
                               [request_id |-> requestId, mobile |-> mobile, otp |-> otp],
                               [mobile |-> mobile])}]_vars
  /\ [][\A m \in InFlight : Consumed(m, "verifyOtp") =>
          /\ IssuedNow = {}
          /\ IF m.res = "2xx"
               THEN /\ accessToken' = m.data.access_token
                    /\ step' = "apartment"
                    /\ \E t \in timers' : t.token = m.data.access_token
               ELSE /\ error' # ""
                    /\ step' = step /\ accessToken' = accessToken
                    /\ timers' = timers]_vars
  /\ [][\A t \in timers : LoginTimer(t) =>
          /\ \E a, d \in IssuedNow :
                /\ a.kind = "getApartments" /\ a.auth = t.token
                /\ d.kind = "getDashboard" /\ d.auth = t.token
          /\ t \notin timers']_vars
  /\ [][(\E r \in IssuedNow : r.kind \in {"getApartments", "getDashboard"}) =>
          \E t \in timers : t \notin timers']_vars

\* logged in: the token is stored and both refreshes carry it
C9_Witness ==
  /\ step = "apartment" /\ accessToken = Tok(1)
  /\ \E a, d \in InFlight :
        /\ a.kind = "getApartments" /\ a.auth = Tok(1)
        /\ d.kind = "getDashboard" /\ d.auth = Tok(1)

\* C10: step is always mobile, otp or apartment and changes only
\* mobile -> otp, otp -> apartment, otp -> mobile.
C10_StepSequence ==
  /\ [](step \in {"mobile", "otp", "apartment"})
  /\ [][step' # step =>
          <<step, step'>> \in {<<"mobile", "otp">>, <<"otp", "apartment">>, <<"otp", "mobile">>}]_vars

----------------------------------------------------------------------------
(* Claims about the selection *)

\* the unit fetch of the selected apartment is outstanding
UnitFetchOutstanding ==
  \E m \in InFlight : m.kind = "getUnits" /\ m.body.apartment = selectedApartmentId
\* this step applies a response to the unit fetch of the selected apartment
UnitFetchApplied ==
  \E m \in InFlight : Consumed(m, "getUnits") /\ m.body.apartment = selectedApartmentId
Cleared == units = <<>> /\ occupants = <<>> /\ invoices = <<>> /\ selectedUnitId = Null

\* C2: once an apartment is selected, the units, occupants and invoices lists
\* stay empty and no unit is selected until the response to that apartment's
\* unit fetch is applied (or another apartment is selected), whatever other
\* responses arrive in between
C2_ClearedUntilUnitsLoad ==
  [][ (Cleared /\ UnitFetchOutstanding /\ ~UnitFetchApplied
         /\ selectedApartmentId' = selectedApartmentId)
      => Cleared' ]_vars

\* C3: the held units belong to the selected apartment and the held occupants
\* and invoices to the selected unit; without a selection the lists are empty
C3_ListsOfSelection ==
  /\ selectedApartmentId = Null => units = <<>>
  /\ \A u \in Elems(units) : u.apartment_id = selectedApartmentId
  /\ selectedUnitId = Null => occupants = <<>> /\ invoices = <<>>
  /\ \A o \in Elems(occupants) : o.unit_id = selectedUnitId
  /\ \A v \in Elems(invoices) : v.unit_id = selectedUnitId

\* C4: handleSelectUnit(u) leaves the occupants and invoices lists empty and
\* both forms reset, and issues exactly one occupants fetch and one invoices
\* fetch for u
C4_SelectUnitClearsAndFetches ==
  [][ \A u \in Elems(units) : handleSelectUnit(u) =>
        /\ occupants' = <<>> /\ invoices' = <<>>
        /\ occName' = <<>> /\ occPhone' = <<>> /\ occRole' = "owner"
        /\ invPeriod' = <<>> /\ invAmount' = <<>> /\ invDueDate' = ""
        /\ \E o, v \in IssuedNow :
             /\ o.kind = "getOccupants" /\ o.body.unit = u.id
             /\ v.kind = "getInvoices" /\ v.body.unit = u.id
             /\ net' = net (+) One(o) (+) One(v) ]_vars

----------------------------------------------------------------------------
(* Claims about the invoices *)

NonZeroDigit(str) == \E i \in 1..Len(str) : str[i] \in Digit \ {"0"}
\* the entered amount is empty, zero or negative
NotPositive(str) == str = <<>> \/ ~NonZeroDigit(str) \/ Head(str) = "-"

\* C5: createInvoice with an empty, zero or negative amount issues no request,
\* shows an error and leaves the invoice form, editingInvoiceId, the invoices
\* list and the dashboard as they are; the amount of every write it issues is
\* an integer greater than 0
C5_AmountRejected ==
  [][ createInvoice =>
        /\ NotPositive(invAmount) =>
             /\ net' = net
             /\ showPopup' /\ popupType' = "error" /\ popupMessage' # NoMsg
             /\ UNCHANGED <<invFormVars, invoices, dashboard>>
        /\ \A r \in IssuedNow :
             r.kind = "saveInvoice" => ~r.body.amount.nan /\ r.body.amount.val > 0 ]_vars

\* C6: once the refresh issued by a successful markPaid(id) has been applied,
\* and as long as no mark-unpaid of id has succeeded at the backend, the held
\* invoices list shows id as paid, whatever other invoice fetches are applied
C6_PaidAfterRefresh ==
  \A id \in paidShown \ unpaidDone : ShownPaid(invoices, id)

\* C7: with a dashboard held and no request in flight, the totals shown are the
\* sums of amount over the backend's non-paid and paid invoices
C7_DashboardTotals ==
  (dashboard # NoDashboard /\ net = EmptyBag) =>
    /\ dashboard.overall_due_amount = Dashboard.overall_due_amount
    /\ dashboard.overall_paid_amount = Dashboard.overall_paid_amount

----------------------------------------------------------------------------
(* Claims about the writes *)

\* what a rejected submit leaves alone: no request, and the held lists, the
\* selection, the form fields and the editing ids as they were
NothingSubmitted ==
  /\ net' = net
  /\ UNCHANGED <<homeVars, selVars, listVars, invFilterMonth>>
  /\ UNCHANGED <<aptName, aptCity, aptUnits, editingApartmentId>>
  /\ UNCHANGED <<unitName, unitBhk, unitStatus, editingUnitId>>
  /\ UNCHANGED <<occFormVars, editingOccupantId, invFormVars>>

\* fewer than n characters once the blanks around them are dropped
Shorter(str, n) == Len(Trim(str)) < n

\* C11: a submit that fails validation issues no request and changes no held
\* list, selection, form field or editing id: createApartment with a name or
\* city blank or shorter than 2, or total units not above 0; createUnit
\* without an apartment or with a blank name; createOccupant without a unit,
\* with a name shorter than 2 or a phone shorter than 10; createInvoice
\* without a unit, with a period shorter than 3 or without a due date
C11_NoRequestOnInvalid ==
  [][ /\ (createApartment /\ (\/ Shorter(aptName, 2) \/ Shorter(aptCity, 2)
                              \/ NotPositive(aptUnits))) => NothingSubmitted
      /\ (createUnit /\ (selectedApartmentId = Null \/ Shorter(unitName, 1)))
           => NothingSubmitted
      /\ (createOccupant /\ (\/ selectedUnitId = Null \/ Shorter(occName, 2)
                             \/ Shorter(occPhone, 10))) => NothingSubmitted
      /\ (createInvoice /\ (\/ selectedUnitId = Null \/ Shorter(invPeriod, 3)
                            \/ invDueDate = "")) => NothingSubmitted ]_vars

\* this step issues exactly one request for each <<kind, body>> of gets
IssuedAre(gets) ==
  /\ {<<r.kind, r.body>> : r \in IssuedNow} = gets
  /\ \A r \in IssuedNow : CopiesIn(r, net') = CopiesIn(r, net) + 1
  /\ Cardinality(IssuedNow) = Cardinality(gets)

Get(kind, body) == <<kind, body>>
GetDashboard == Get("getDashboard", NoData)

\* the step that applies the 2xx response m to a create/update clears the
\* form and issues the refresh of apartment aid, unit uid and month filter month
SaveRefreshes(m, aid, uid, month) ==
  /\ (Consumed(m, "saveApartment") /\ m.res = "2xx") =>
       /\ aptName' = <<>> /\ aptCity' = <<>> /\ aptUnits' = <<>>
       /\ editingApartmentId' = Null
       /\ IssuedAre({Get("getApartments", NoData), GetDashboard})
  /\ (Consumed(m, "saveUnit") /\ m.res = "2xx") =>
       /\ unitName' = <<>> /\ unitBhk' = "2BHK" /\ unitStatus' = "vacant"
       /\ editingUnitId' = Null
       /\ IssuedAre({Get("getUnits", [apartment |-> aid]), GetDashboard})
  /\ (Consumed(m, "saveOccupant") /\ m.res = "2xx") =>
       /\ occName' = <<>> /\ occPhone' = <<>> /\ occRole' = "owner"
       /\ editingOccupantId' = Null
       /\ IssuedAre({Get("getOccupants", [unit |-> uid]),
                     Get("getUnits", [apartment |-> aid]), GetDashboard})
  /\ (Consumed(m, "saveInvoice") /\ m.res = "2xx") =>
       /\ invPeriod' = <<>> /\ invAmount' = <<>> /\ invDueDate' = ""
       /\ editingInvoiceId' = Null
       /\ IssuedAre({Get("getInvoices", [unit |-> uid, month |-> month]), GetDashboard})

InvoiceRowKinds == {"deleteInvoice", "markPaid", "markUnpaid"}
RowKinds == {"deleteUnit", "deleteOccupant"} \cup InvoiceRowKinds

\* the step that applies the response m to a delete, mark-paid or mark-unpaid
\* issues, when m is 2xx, the refresh of apartment aid, unit uid and month
\* filter month, and nothing otherwise
RowRefreshes(m, aid, uid, month) ==
  (Answered(m, m.kind) /\ m.kind \in RowKinds /\ Consumed(m, m.kind)) =>
    CASE m.res # "2xx" -> IssuedNow = {}
      [] m.kind = "deleteUnit" ->
           IssuedAre({Get("getUnits", [apartment |-> aid]), GetDashboard})
      [] m.kind = "deleteOccupant" ->
           IssuedAre({Get("getOccupants", [unit |-> uid]),
                      Get("getUnits", [apartment |-> aid]), GetDashboard})
      [] OTHER ->
           IssuedAre({Get("getInvoices", [unit |-> uid, month |-> month]), GetDashboard})

WriteKinds == {"saveApartment", "saveUnit", "saveOccupant", "saveInvoice"} \cup RowKinds

\* the form fields, editing ids, selection, held lists and dashboard keep
\* their values
ViewKept ==
  /\ UNCHANGED <<aptName, aptCity, aptUnits, editingApartmentId>>
  /\ UNCHANGED <<unitName, unitBhk, unitStatus, editingUnitId>>
  /\ UNCHANGED <<occFormVars, editingOccupantId, invFormVars>>
  /\ UNCHANGED <<selVars, listVars, homeVars, invFilterMonth>>

\* C14: a write that fails changes nothing but the message: the step that
\* issues a create, update, delete, mark-paid or mark-unpaid request, and the
\* step that applies a non-2xx response or an exception to it, leave the form
\* fields, editing ids, selection, held lists and dashboard as they are; the
\* latter shows an error message
C14_FailedWriteKeepsView ==
  /\ [][ (\E r \in IssuedNow : r.kind \in WriteKinds) => ViewKept ]_vars
  /\ [][ \A m \in InFlight :
           (Answered(m, m.kind) /\ m.kind \in WriteKinds /\ Consumed(m, m.kind)
              /\ m.res # "2xx") =>
             /\ showPopup' /\ popupType' = "error" /\ popupMessage'.text # ""
             /\ ViewKept ]_vars

\* saving a new unit was refused: the error is shown, the unit form still holds
\* what was submitted and unit A-101 is still open
C14_Witness ==
  /\ popupMessage.text = "Could not save unit." /\ popupType = "error"
  /\ unitName = NewUnitName /\ editingUnitId = Null
  /\ selectedUnitId = Unit1.id /\ units = UnitsOf(AptA.id)
  /\ \A m \in InFlight : m.kind # "saveUnit"

DeleteKinds == {"deleteUnit", "deleteOccupant", "deleteInvoice"}

\* C15: a DELETE request is issued only by deleteUnit, deleteOccupant or
\* deleteInvoice with the confirmation accepted, one request for the row
\* clicked; with the confirmation declined no request is issued and nothing
\* changes
C15_DeleteNeedsConfirm ==
  /\ [][ (\E r \in IssuedNow : r.kind \in DeleteKinds) =>
           \/ \E u \in Elems(units) :
                deleteUnit(u, TRUE) /\ IssuedAre({Get("deleteUnit", [id |-> u.id])})
           \/ \E occ \in Elems(occupants) :
                deleteOccupant(occ, TRUE) /\ IssuedAre({Get("deleteOccupant", [id |-> occ.id])})
           \/ \E inv \in Elems(invoices) :
                deleteInvoice(inv, TRUE) /\ IssuedAre({Get("deleteInvoice", [id |-> inv.id])})
       ]_vars
  /\ [][ /\ \A u \in Elems(units) : deleteUnit(u, FALSE) => UNCHANGED vars
         /\ \A occ \in Elems(occupants) : deleteOccupant(occ, FALSE) => UNCHANGED vars
         /\ \A inv \in Elems(invoices) : deleteInvoice(inv, FALSE) => UNCHANGED vars ]_vars

\* the deletion of Asha was confirmed and its request is out
C15_Witness ==
  \E m \in InFlight : m.kind = "deleteOccupant" /\ m.st = "sent" /\ m.body.id = Occ1.id

\* C16: createApartment, createUnit and createOccupant never issue a POST or
\* PUT carrying a name or phone that the backend holds for a different
\* record, whatever the order of edits, blur checks, check responses and
\* submits
C16_NoKnownDuplicateWritten ==
  [][ \A r \in IssuedNow :
        /\ r.kind = "saveApartment" => AptNamed(r.body.name, r.body.id) = {}
        /\ r.kind = "saveUnit" => UnitNamed(r.body.apartment, r.body.name, r.body.id) = {}
        /\ r.kind = "saveOccupant" => OccPhoned(r.body.unit, r.body.phone, r.body.id) = {}
    ]_vars

----------------------------------------------------------------------------
(* Claims about the token and the fetches *)

\* C17: when the response to an authenticated request issued in step apartment
\* is a 401, the step that applies it discards the held token and leaves step
\* apartment
C17_UnauthorizedLogsOut ==
  [][ \A m \in InFlight :
        (/\ m.st = "resp" /\ m.res = "non2xx" /\ m.data = Unauthorized
         /\ Consumed(m, m.kind) /\ step = "apartment") =>
          accessToken' = "" /\ step' # "apartment" ]_vars

Unprotected == {"sendOtp", "verifyOtp"}

\* C18: once a token is held, every request to a protected endpoint carries
\* the token of the most recent successful verify-otp, the one the client
\* holds, the two refreshes after a login included; send-otp and verify-otp
\* carry none
C18_BearerOfLatestLogin ==
  [][ \A r \in IssuedNow :
        IF r.kind \in Unprotected THEN r.auth = ""
        ELSE accessToken # "" => r.auth = accessToken ]_vars

\* what a response leaves in the held list: its payload, nothing on a failure
Payload(m, f) == IF m.res = "2xx" THEN m.data[f] ELSE <<>>

\* C19: no fencing: the step that applies the response to a fetch stores its
\* payload (the empty list, or no dashboard, on a failure) whatever was issued
\* or applied since, so with two fetches of a list in flight the held value is
\* that of the response applied last, and an earlier-issued response applied
\* later overwrites the newer one
C19_LastAppliedWins ==
  [][ \A m \in InFlight :
        /\ Consumed(m, "getApartments") => createdApartments' = Payload(m, "apartments")
        /\ Consumed(m, "getUnits") => units' = Payload(m, "units")
        /\ Consumed(m, "getOccupants") => occupants' = Payload(m, "occupants")
        /\ Consumed(m, "getInvoices") => invoices' = Payload(m, "invoices")
        /\ Consumed(m, "getDashboard") =>
             dashboard' = (IF m.res = "2xx" THEN m.data ELSE NoDashboard) ]_vars

\* Beta was selected after Alpha and both unit fetches are resolved, Alpha's
\* last: the held units are Alpha's
C19_Witness ==
  /\ selectedApartmentId = AptB.id
  /\ units = UnitsOf(AptA.id) /\ units # <<>>
  /\ \A m \in InFlight : m.kind # "getUnits"

GetKinds == {"getApartments", "getDashboard", "getUnits", "getOccupants", "getInvoices"}

\* this step takes no response out of flight: a click, a blur or a timer
NothingApplied == \A m \in InFlight : m.st = "resp" => CopiesIn(m, net') >= CopiesIn(m, net)
\* this step applies the response m
Applied(m) == m \in InFlight /\ m.st = "resp" /\ CopiesIn(m, net') = CopiesIn(m, net) - 1

\* C20: nothing is retried: the step that applies a non-2xx response or an
\* exception issues no request; a write request is issued only by a step of
\* the user (no response applied), one per step; a GET is issued only by a step
\* of the user or of the login timer, or by the step that applies the 2xx
\* response to a write
C20_NoRetry ==
  [][ /\ \A m \in InFlight : (Applied(m) /\ m.res # "2xx") => IssuedNow = {}
      /\ \A r \in IssuedNow :
           /\ r.kind \in WriteKinds => net' = net (+) One(r)
           /\ r.kind \in GetKinds =>
                \/ NothingApplied
                \/ \E m \in InFlight : Applied(m) /\ m.kind \in WriteKinds /\ m.res = "2xx" ]_vars

\* a refused or unreachable save was applied: the error is shown, the form is
\* still filled, and nothing is in flight
C20_Witness ==
  /\ net = EmptyBag
  /\ showPopup /\ popupType = "error"
  /\ aptName = NewAptName /\ srvCreated = 0

----------------------------------------------------------------------------
(* Claims about editing, the uniqueness checks and the refreshes *)

\* the step puts exactly the request r in flight and takes nothing out
OnlyIssued(r) == net' = net (+) One(r)
\* PUT to the record's URL when the id is set, POST to the collection otherwise
Method(r) == IF r.body.id # Null THEN "PUT" ELSE "POST"

\* C21: a submit issues one request, a PUT to the record of the form's editing
\* id when that id is set and a POST to the selected parent's collection when it
\* is null; the step that sets an editing id is the Edit button of a held row,
\* fills the form with that row and issues nothing; the step that applies a 2xx
\* response to a submit resets the editing id; the step that resets an editing
\* id leaves the form at its defaults, and issues no write
C21_EditRoutesToUpdate ==
  [][ /\ \A r \in IssuedNow :
           /\ r.kind = "saveApartment" =>
                OnlyIssued(r) /\ r.body.id = editingApartmentId
           /\ r.kind = "saveUnit" =>
                /\ OnlyIssued(r) /\ r.body.id = editingUnitId
                /\ Method(r) = "POST" => r.body.apartment = selectedApartmentId
           /\ r.kind = "saveOccupant" =>
                /\ OnlyIssued(r) /\ r.body.id = editingOccupantId
                /\ Method(r) = "POST" => r.body.unit = selectedUnitId
           /\ r.kind = "saveInvoice" =>
                /\ OnlyIssued(r) /\ r.body.id = editingInvoiceId
                /\ Method(r) = "POST" => r.body.unit = selectedUnitId
      /\ (editingApartmentId' # editingApartmentId /\ editingApartmentId' # Null) =>
           /\ \E apt \in Elems(createdApartments) :
                /\ apt.id = editingApartmentId'
                /\ aptName' = apt.name /\ aptCity' = apt.city
                /\ aptUnits' = toString(apt.total_units)
           /\ net' = net
      /\ (editingUnitId' # editingUnitId /\ editingUnitId' # Null) =>
           /\ \E u \in Elems(units) :
                /\ u.id = editingUnitId'
                /\ unitName' = u.name /\ unitBhk' = u.bhk_type /\ unitStatus' = u.status
           /\ net' = net
      /\ (editingOccupantId' # editingOccupantId /\ editingOccupantId' # Null) =>
           /\ \E occ \in Elems(occupants) :
                /\ occ.id = editingOccupantId'
                /\ occName' = occ.name /\ occPhone' = occ.phone /\ occRole' = occ.role
           /\ net' = net
      /\ (editingInvoiceId' # editingInvoiceId /\ editingInvoiceId' # Null) =>
           /\ \E inv \in Elems(invoices) :
                /\ inv.id = editingInvoiceId'
                /\ invPeriod' = inv.period_label /\ invAmount' = toString(inv.amount)
                /\ invDueDate' = inv.due_date
           /\ net' = net
      /\ \A m \in InFlight :
           /\ (Consumed(m, "saveApartment") /\ m.res = "2xx") => editingApartmentId' = Null
           /\ (Consumed(m, "saveUnit") /\ m.res = "2xx") => editingUnitId' = Null
           /\ (Consumed(m, "saveOccupant") /\ m.res = "2xx") => editingOccupantId' = Null
           /\ (Consumed(m, "saveInvoice") /\ m.res = "2xx") => editingInvoiceId' = Null
      /\ (editingApartmentId # Null /\ editingApartmentId' = Null) =>
           /\ aptName' = <<>> /\ aptCity' = <<>> /\ aptUnits' = <<>>
           /\ net' = net \/ \E m \in InFlight : Consumed(m, "saveApartment") /\ m.res = "2xx"
      /\ (editingUnitId # Null /\ editingUnitId' = Null) =>
           /\ unitName' = <<>> /\ unitBhk' = "2BHK" /\ unitStatus' = "vacant"
           /\ net' = net \/ \E m \in InFlight : Consumed(m, "saveUnit") /\ m.res = "2xx"
      /\ (editingOccupantId # Null /\ editingOccupantId' = Null) =>
           /\ occName' = <<>> /\ occPhone' = <<>> /\ occRole' = "owner"
           /\ net' = net \/ \E m \in InFlight : Consumed(m, "saveOccupant") /\ m.res = "2xx"
      /\ (editingInvoiceId # Null /\ editingInvoiceId' = Null) =>
           /\ invPeriod' = <<>> /\ invAmount' = <<>> /\ invDueDate' = ""
           /\ net' = net \/ \E m \in InFlight : Consumed(m, "saveInvoice") /\ m.res = "2xx"
    ]_vars

\* the Edit button of unit A-101 was clicked and the form submitted: a PUT
\* for that unit is in flight, and so is a POST of the apartment form
C21_Witness ==
  /\ \E m \in InFlight : m.kind = "saveUnit" /\ m.st = "sent" /\ m.body.id = Unit1.id
  /\ \E m \in InFlight : m.kind = "saveApartment" /\ m.st = "sent" /\ m.body.id = Null

\* C22: the step that applies a 2xx response to the DELETE of the unit that
\* is selected at that moment clears the selection: no unit selected, no label,
\* no occupants, no invoices
C22_DeletedUnitDeselected ==
  [][ \A m \in InFlight :
        (Consumed(m, "deleteUnit") /\ m.res = "2xx" /\ selectedUnitId = m.body.id) =>
          /\ selectedUnitId' = Null /\ selectedUnitLabel' = ""
          /\ occupants' = <<>> /\ invoices' = <<>> ]_vars

\* the flag a check's response leaves: the response's exists value, false
\* when the record it names is the one that was being edited, false when the
\* request failed
CheckOutcome(m, id) ==
  IF m.res # "2xx" THEN FALSE
  ELSE IF m.data.exists /\ m.ctx.editing # Null /\ id = m.ctx.editing THEN FALSE
  ELSE m.data.exists

AptNameBlank == Trim(aptName) = <<>> \/ Len(aptName) < MinNameLen
UnitNameBlank == selectedApartmentId = Null \/ Trim(unitName) = <<>>
OccPhoneBlank ==
  selectedUnitId = Null \/ Trim(occPhone) = <<>> \/ Len(Trim(occPhone)) < MinPhoneLen

Listless(m, field) == m.res # "2xx" \/ field \notin DOMAIN m.data

\* C24: the step that applies a non-2xx response, an exception or a 2xx body
\* without the array field to a fetch of apartments, units, occupants or
\* invoices empties the held list; a failed GET /dashboard leaves no dashboard;
\* no step that applies a response to a fetch changes the selected apartment
\* or unit
C24_FailedRefreshDiscards ==
  [][ \A m \in InFlight :
        /\ (Consumed(m, "getApartments") /\ Listless(m, "apartments")) =>
             createdApartments' = <<>>
        /\ (Consumed(m, "getUnits") /\ Listless(m, "units")) => units' = <<>>
        /\ (Consumed(m, "getOccupants") /\ Listless(m, "occupants")) => occupants' = <<>>
        /\ (Consumed(m, "getInvoices") /\ Listless(m, "invoices")) => invoices' = <<>>
        /\ (Consumed(m, "getDashboard") /\ m.res # "2xx") => dashboard' = NoDashboard
        /\ (\E k \in GetKinds : Consumed(m, k)) =>
             UNCHANGED <<selectedApartmentId, selectedUnitId>> ]_vars

\* Alpha is selected and every fetch is resolved; every apartment has units,
\* so the last unit fetch applied did not bring a list: none is held
C24_Witness ==
  /\ net = EmptyBag
  /\ selectedApartmentId = AptA.id
  /\ \A a \in Elems(srvApartments) : UnitsOf(a.id) # <<>>
  /\ units = <<>>

SaveKinds == {"saveApartment", "saveUnit", "saveOccupant", "saveInvoice"}
\* the requests of this kind whose continuation has not run yet
Unresolved(kind) == BagCardinality([m \in {x \in InFlight : x.kind = kind} |-> CopiesIn(m, net)])

\* C25: at most one write of each form is in flight
C25_OneWritePerForm == \A kind \in SaveKinds : Unresolved(kind) <= 1

\* C26: an editing id that is set names a record of the current selection:
\* the unit being edited belongs to the selected apartment, the occupant and
\* the invoice being edited belong to the selected unit
C26_EditingWithinSelection ==
  /\ editingUnitId # Null =>
       \E u \in Elems(srvUnits) : u.id = editingUnitId /\ u.apartment_id = selectedApartmentId
  /\ editingOccupantId # Null =>
       \E o \in Elems(srvOccupants) : o.id = editingOccupantId /\ o.unit_id = selectedUnitId
  /\ editingInvoiceId # Null =>
       \E v \in Elems(srvInvoices) : v.id = editingInvoiceId /\ v.unit_id = selectedUnitId

\* C27: every verify-otp request carries a request id that the backend
\* issued for a send-otp of the mobile number the verify-otp carries
C27_RequestIdOfMobile ==
  \A m \in InFlight :
    m.kind = "verifyOtp" =>
      \E n \in 1..Len(srvOtpReqs) :
        Rid(n) = m.body.request_id /\ srvOtpReqs[n].mobile = m.body.mobile

\* C28: whenever a unit is selected and the month filter is not empty, the
\* filter input is on screen, so the filter can be changed or cleared
C28_FilterEditable ==
  (step = "apartment" /\ selectedUnitId # Null /\ invFilterMonth # "") => filterShown

\* C29: createApartment rejects a submit with "Apartment name already
\* exists" only when another apartment at the backend has the name that is in
\* the form field
C29_DuplicateOfSubmitted ==
  [][ (createApartment /\ ApartmentError = "Apartment name already exists") =>
        AptNamed(Trim(aptName), editingApartmentId) # {} ]_vars

\* nothing is in flight and no callback is pending
Quiescent == net = EmptyBag /\ timers = {}

\* C30: when every request has been answered successfully and nothing is in
\* flight, the held apartments are the backend's, the held units are those of
\* the selected apartment, and the held occupants and invoices are those of
\* the selected unit under the current month filter
C30_ListsConverge ==
  Quiescent =>
    /\ createdApartments = srvApartments
    /\ selectedApartmentId # Null => units = UnitsOf(selectedApartmentId)
    /\ selectedUnitId # Null =>
         /\ occupants = OccupantsOf(selectedUnitId)
         /\ invoices = InvoicesOf(selectedUnitId, invFilterMonth)

(* Claims about the selection, the token, the labels and the backend status *)

\* the selected unit is a unit of the selected apartment
UnitOfSelectedApartment ==
  selectedUnitId # Null =>
    /\ selectedApartmentId # Null
    /\ \A u \in Elems(srvUnits) :
         u.id = selectedUnitId => u.apartment_id = selectedApartmentId

\* C31: a selected unit implies a selected apartment to which the unit
\* belongs, and selectedApartmentId, once set, is never reset to null
C31_UnitWithinApartment ==
  /\ []UnitOfSelectedApartment
  /\ [][selectedApartmentId # Null => selectedApartmentId' # Null]_vars

\* the access tokens the backend has issued in successful verify-otp responses
IssuedTokens == { Tok(n) : n \in 1..srvTokens }

\* C32: in step apartment the held token is non-empty and is the access_token
\* of a successful verify-otp response; the token is empty until the first
\* successful verification; once step is apartment, step never changes again
C32_LoggedInHoldsToken ==
  /\ [](step = "apartment" => accessToken # "" /\ accessToken \in IssuedTokens)
  /\ [](accessToken # "" => accessToken \in IssuedTokens)
  /\ [][step = "apartment" => step' = "apartment"]_vars

\* the held record with the given id, as a set
HeldWithId(list, id) == { r \in Elems(list) : r.id = id }

\* C33: when the selected apartment is in the held apartments list,
\* selectedApartmentName is its name, and when the selected unit is in the
\* held units list, selectedUnitLabel is built from its name, BHK type and
\* status, also after an update of the selected record and its refresh
C33_LabelsMatchRecords ==
  /\ \A a \in HeldWithId(createdApartments, selectedApartmentId) :
       selectedApartmentName = a.name
  /\ \A u \in HeldWithId(units, selectedUnitId) :
       selectedUnitLabel = UnitLabel(u)

\* the health requests in flight, answered or not
HealthInFlight == { m \in InFlight : m.kind = "health" }

\* the status the answer m of GET /health stands for
StatusOf(m) == IF m.res = "2xx" /\ m.data.status = "ok" THEN "online" ELSE "offline"

\* C34: the backend status starts as "checking..."; it is set once, by the
\* response of the one health request issued on load, to online iff the
\* response is 2xx with status "ok" and to offline otherwise; afterwards it
\* never changes; with the request eventually resolved the status eventually
\* leaves "checking..."; sendOtp is available whatever the status is
C34_BackendStatus ==
  /\ backendStatus = "checking..." /\ HealthInFlight = {ReqHealth}
  /\ [](Cardinality(HealthInFlight) <= 1 /\ \A m \in HealthInFlight : CopiesIn(m, net) = 1)
  /\ [](backendStatus = "checking..." <=> HealthInFlight # {})
  /\ [][backendStatus' # backendStatus =>
          \E m \in HealthInFlight :
             /\ m.st = "resp" /\ net' = net (-) One(m)
             /\ backendStatus' = StatusOf(m)]_vars
  /\ [][backendStatus # "checking..." => backendStatus' = backendStatus]_vars
  /\ <>(backendStatus # "checking...")
  /\ [](step = "mobile" /\ isValidMobile(mobile) /\ Room(1) => ENABLED SendOtp)

\* the health request has resolved to offline, and a send-otp request is in flight
C34_Witness ==
  /\ backendStatus = "offline" /\ HealthInFlight = {}
  /\ \E m \in InFlight : m.kind = "sendOtp" /\ m.st = "sent"

====
